---- MODULE Spec2Model ----
(***************************************************************************)
(* Model of the document pipeline of pdf-reader-tts (Convex backend):      *)
(* extraction (convex/ocr.ts, convex/documents.ts), indexing               *)
(* (convex/embeddings.ts) and speech generation (convex/tts.ts).           *)
(*                                                                         *)
(* A text is a sequence of one-character strings.  Offsets are 0-based as  *)
(* in the source; the character at offset k of text is text[k+1].          *)
(* In the state a text is held as its index in the table Texts (0: no      *)
(* text); the functions of the program are applied to the text, TextOf(t). *)
(***************************************************************************)
EXTENDS Integers, Sequences, FiniteSets, TLC

(***************************************************************************)
(* Bounds of the model.                                                    *)
(***************************************************************************)
\* number of long sentences in the longest text the extraction service returns
MaxSentences == 2
\* number of documents that are uploaded
MaxDocs == 1
\* number of times triggerOCR is invoked
MaxOcrTriggers == 2
\* number of speech triggers (processDocumentTTS / generateDocumentAudio)
MaxTtsRuns == 2
\* number of documents of SpecBurst, one generateDocumentAudio for each
MaxBurst == 11
\* the largest currentChunkIndex a direct call of updatePlaybackState passes
MaxApiIndex == 1
\* the length of the longest text over Alphabet handed to the chunkers
MaxShort == 4
\* the largest number of sentences of a text built from whole sentences
MaxLong == 3
\* the largest number of exchanges a document's chat history starts with
MaxExchanges == 11
\* the number of sendMessage calls
MaxSends == 2

(***************************************************************************)
(* Program constants.                                                      *)
(***************************************************************************)
CHUNK_SIZE == 1000
CHUNK_OVERLAP == 200
SEARCH_WINDOW == 100
TARGET_SIZE == 400
MIN_SIZE == 200
MAX_SIZE == 600
maxAttempts == 3
maxParallelism == 10
\* sendMessage: listMessagesInternal({limit: 20})
HistoryLimit == 20

(***************************************************************************)
(* Characters and strings.                                                 *)
(***************************************************************************)
\* the class \s, restricted to the characters of the modelled texts
Space == {" ", "\n"}

IsSpace(c) == c \in Space

\* the class [.!?] of sentenceRegex
Terminators == {".", "!", "?"}

\* text.slice(from, to) for 0 <= from, to
Slice(text, from, to) ==
  IF to <= from THEN <<>>
  ELSE SubSeq(text, from + 1, IF to > Len(text) THEN Len(text) ELSE to)

\* smallest offset k in from..Len(text)-1 whose character is in class (in = TRUE)
\* or is not in class (in = FALSE), Len(text) if there is none
FirstOffset(text, from, class, in) ==
  LET n == Len(text)
      P(k) == (text[k + 1] \in class) = in
  IN  IF \A k \in from..(n - 1) : ~P(k) THEN n
      ELSE CHOOSE k \in from..(n - 1) : P(k) /\ \A j \in from..(k - 1) : ~P(j)

\* String.prototype.trim
Trim(text) ==
  LET n == Len(text)
      f == FirstOffset(text, 0, Space, FALSE)
  IN  IF f = n THEN <<>>
      ELSE LET l == CHOOSE k \in 1..n :
                      ~IsSpace(text[k]) /\ \A j \in (k + 1)..n : IsSpace(text[j])
           IN  SubSeq(text, f + 1, l)

\* text starting at offset i begins with the literal lit
StartsWithAt(text, i, lit) ==
  /\ i + Len(lit) <= Len(text)
  /\ \A k \in 1..Len(lit) : text[i + k] = lit[k]

(***************************************************************************)
(* cleanOCRText (convex/tts.ts): six replacements and a trim.              *)
(* Each XxxEnd(text, i) is the end offset of the match of the pattern      *)
(* starting at offset i, or -1 when the pattern does not match there.      *)
(***************************************************************************)
\* the class \d
Digits == {"0", "1", "2", "3", "4", "5", "6", "7", "8", "9"}

\* /<\|ref\|>[^<]*<\|\/ref\|>/ and /<\|det\|>[^<]*<\|\/det\|>/
TaggedEnd(text, i, open, close) ==
  IF ~StartsWithAt(text, i, open) THEN -1
  ELSE LET k == FirstOffset(text, i + Len(open), {"<"}, TRUE)
       IN  IF StartsWithAt(text, k, close) THEN k + Len(close) ELSE -1

RefTagEnd(text, i) ==
  TaggedEnd(text, i, <<"<", "|", "r", "e", "f", "|", ">">>,
                     <<"<", "|", "/", "r", "e", "f", "|", ">">>)

DetTagEnd(text, i) ==
  TaggedEnd(text, i, <<"<", "|", "d", "e", "t", "|", ">">>,
                     <<"<", "|", "/", "d", "e", "t", "|", ">">>)

\* /={3,}[^=]*torch\.Size[^=]*={3,}/
BannerEnd(text, i) ==
  LET bar == <<"=", "=", "=">>
      lit == <<"t", "o", "r", "c", "h", ".", "S", "i", "z", "e">>
  IN  IF ~StartsWithAt(text, i, bar) THEN -1
      ELSE LET j == FirstOffset(text, i, {"="}, FALSE)
               k == FirstOffset(text, j, {"="}, TRUE)
           IN  IF /\ \E t \in j..(k - Len(lit)) : StartsWithAt(text, t, lit)
                  /\ StartsWithAt(text, k, bar)
               THEN FirstOffset(text, k, {"="}, FALSE)
               ELSE -1

\* /---\s*Page\s*\d+\s*---/
PageMarkerEnd(text, i) ==
  LET dashes == <<"-", "-", "-">>
      page == <<"P", "a", "g", "e">>
  IN  IF ~StartsWithAt(text, i, dashes) THEN -1
      ELSE LET a == FirstOffset(text, i + 3, Space, FALSE)
           IN  IF ~StartsWithAt(text, a, page) THEN -1
               ELSE LET b == FirstOffset(text, a + 4, Space, FALSE)
                        c == FirstOffset(text, b, Digits, FALSE)
                        d == FirstOffset(text, c, Space, FALSE)
                    IN  IF c > b /\ StartsWithAt(text, d, dashes)
                        THEN d + 3 ELSE -1

\* /^#{1,6}\s+/m
HeadingEnd(text, i) ==
  LET h == FirstOffset(text, i, {"#"}, FALSE)
  IN  IF /\ i = 0 \/ text[i] = "\n"
         /\ h - i >= 1
         /\ h - i <= 6
         /\ h < Len(text)
         /\ IsSpace(text[h + 1])
      THEN FirstOffset(text, h, Space, FALSE)
      ELSE -1

\* /\n{3,}/
NewlinesEnd(text, i) ==
  IF StartsWithAt(text, i, <<"\n", "\n", "\n">>)
  THEN FirstOffset(text, i, {"\n"}, FALSE) ELSE -1

\* the end offset of the match of one of the six patterns at offset i, or -1
MatchEnd(pattern, text, i) ==
  CASE pattern = "ref" -> RefTagEnd(text, i)
    [] pattern = "det" -> DetTagEnd(text, i)
    [] pattern = "banner" -> BannerEnd(text, i)
    [] pattern = "page" -> PageMarkerEnd(text, i)
    [] pattern = "heading" -> HeadingEnd(text, i)
    [] pattern = "newlines" -> NewlinesEnd(text, i)

\* String.prototype.replace(/pattern/g, repl): leftmost matches, left to right
RECURSIVE ReplaceFrom(_, _, _, _)
ReplaceFrom(text, pattern, repl, p) ==
  LET n == Len(text)
      Hit(i) == MatchEnd(pattern, text, i) # -1
  IN  IF \A i \in p..(n - 1) : ~Hit(i) THEN Slice(text, p, n)
      ELSE LET i == CHOOSE k \in p..(n - 1) : Hit(k) /\ \A j \in p..(k - 1) : ~Hit(j)
           IN  Slice(text, p, i) \o repl
               \o ReplaceFrom(text, pattern, repl, MatchEnd(pattern, text, i))

ReplaceAll(text, pattern, repl) == ReplaceFrom(text, pattern, repl, 0)

cleanOCRText(raw) ==
  Trim(ReplaceAll(ReplaceAll(ReplaceAll(ReplaceAll(ReplaceAll(ReplaceAll(raw,
    "ref", <<>>),
    "det", <<>>),
    "banner", <<>>),
    "page", <<>>),
    "heading", <<>>),
    "newlines", <<"\n", "\n">>))

(***************************************************************************)
(* chunkTextForTTS (convex/tts.ts).                                        *)
(***************************************************************************)
\* One exec of sentenceRegex /[^.!?]*[.!?]+(?:\s|$)|[^.!?]+$/g with lastIndex p:
\* the leftmost match at or after p as [start, end], or [start |-> -1] if none.
RECURSIVE sentenceRegexExec(_, _)
sentenceRegexExec(text, p) ==
  LET n == Len(text)
      j == FirstOffset(text, p, Terminators, TRUE)
      k == FirstOffset(text, j, Terminators, FALSE)
  IN  IF p >= n THEN [start |-> -1, end |-> -1]
      ELSE IF j = n THEN [start |-> p, end |-> n]
      ELSE IF k = n THEN [start |-> p, end |-> n]
      ELSE IF IsSpace(text[k + 1]) THEN [start |-> p, end |-> k + 1]
      ELSE sentenceRegexExec(text, k)

\* the while loop over sentenceRegex.exec(text)
RECURSIVE SentencesFrom(_, _)
SentencesFrom(text, p) ==
  LET m == sentenceRegexExec(text, p)
  IN  IF m.start = -1 THEN <<>>
      ELSE <<[text |-> Slice(text, m.start, m.end), start |-> m.start, end |-> m.end]>>
           \o SentencesFrom(text, m.end)

\* the running chunk is flushed as soon as it holds MIN_SIZE characters
ReachedMin(currentChunk) == Len(currentChunk) >= MIN_SIZE

\* `if (currentChunk.length >= TARGET_SIZE)`: the running chunk is flushed
ReachedTarget(currentChunk) == Len(currentChunk) >= TARGET_SIZE

\* the for loop over the sentences and the final flush
RECURSIVE ttsLoop(_, _, _, _, _, _, _)
ttsLoop(text, sentences, k, chunks, currentChunk, currentStart, position) ==
  IF k > Len(sentences)
  THEN IF Trim(currentChunk) # <<>>
       THEN Append(chunks, [text |-> Trim(currentChunk),
                            startCharIndex |-> currentStart,
                            endCharIndex |-> Len(text)])
       ELSE chunks
  ELSE
    LET sentence == sentences[k]
        trimmedSentence == Trim(sentence.text)
        flush == /\ Len(currentChunk) + Len(trimmedSentence) > MAX_SIZE
                 /\ Len(currentChunk) >= MIN_SIZE
        chunks1 == IF flush
                   THEN Append(chunks, [text |-> Trim(currentChunk),
                                        startCharIndex |-> currentStart,
                                        endCharIndex |-> position])
                   ELSE chunks
        current1 == IF flush THEN <<>> ELSE currentChunk
        start1 == IF flush THEN sentence.start ELSE currentStart
        current2 == current1 \o (IF current1 # <<>> THEN <<" ">> ELSE <<>>) \o trimmedSentence
    IN  IF trimmedSentence = <<>>
        THEN ttsLoop(text, sentences, k + 1, chunks, currentChunk, currentStart, position)
        ELSE IF Len(trimmedSentence) > MAX_SIZE /\ current1 = <<>>
        THEN ttsLoop(text, sentences, k + 1,
                     Append(chunks1, [text |-> trimmedSentence,
                                      startCharIndex |-> sentence.start,
                                      endCharIndex |-> sentence.end]),
                     <<>>, sentence.end, sentence.end)
        ELSE IF ReachedTarget(current2)
        THEN ttsLoop(text, sentences, k + 1,
                     Append(chunks1, [text |-> Trim(current2),
                                      startCharIndex |-> start1,
                                      endCharIndex |-> sentence.end]),
                     <<>>, sentence.end, sentence.end)
        ELSE ttsLoop(text, sentences, k + 1, chunks1, current2, start1, sentence.end)

\* chunkTextForTTS whose sentenceRegex lacks the alternative /[^.!?]+$/: a
\* stretch of text without a terminator is no sentence
chunkTextForTTSTerminatedOnly(text) ==
  ttsLoop(text,
          SelectSeq(SentencesFrom(text, 0),
                    LAMBDA s : \E k \in 1..Len(s.text) : s.text[k] \in Terminators),
          1, <<>>, <<>>, 0, 0)

chunkTextForTTS(text) ==
  ttsLoop(text, SentencesFrom(text, 0), 1, <<>>, <<>>, 0, 0)

(***************************************************************************)
(* chunkText (convex/embeddings.ts).                                       *)
(***************************************************************************)
\* String.prototype.lastIndexOf for a two-character needle, -1 if absent
LastIndexOf(s, needle) ==
  LET At(i) == s[i + 1] = needle[1] /\ s[i + 2] = needle[2]
      S == {i \in 0..(Len(s) - 2) : At(i)}
  IN  IF S = {} THEN -1 ELSE CHOOSE i \in S : \A j \in S : j <= i

sentenceEndings ==
  << <<".", " ">>, <<"!", " ">>, <<"?", " ">>,
     <<".", "\n">>, <<"!", "\n">>, <<"?", "\n">> >>

\* the for loop over sentenceEndings, started with bestBreak = -1
RECURSIVE BestBreak(_, _, _)
BestBreak(searchText, e, bestBreak) ==
  IF e > Len(sentenceEndings) THEN bestBreak
  ELSE LET idx == LastIndexOf(searchText, sentenceEndings[e])
       IN  BestBreak(searchText, e + 1,
                     IF idx > bestBreak THEN idx + Len(sentenceEndings[e]) ELSE bestBreak)

\* the end offset of the chunk that starts at start
ChunkEnd(text, start) ==
  LET end == start + CHUNK_SIZE
  IN  IF end < Len(text)
      THEN LET searchStart == IF end - SEARCH_WINDOW > start THEN end - SEARCH_WINDOW ELSE start
               bestBreak == BestBreak(Slice(text, searchStart, end), 1, -1)
           IN  IF bestBreak > 0 THEN searchStart + bestBreak ELSE end
      ELSE Len(text)

\* the start offset of the next iteration
NextStart(start, end) ==
  LET s1 == end - CHUNK_OVERLAP
      s2 == IF s1 < 0 THEN 0 ELSE s1
  IN  IF s2 >= end - CHUNK_OVERLAP THEN end ELSE s2

RECURSIVE chunkTextFrom(_, _, _)
chunkTextFrom(text, start, chunks) ==
  IF start >= Len(text) THEN chunks
  ELSE LET end == ChunkEnd(text, start)
           chunk == Trim(Slice(text, start, end))
       IN  chunkTextFrom(text, NextStart(start, end),
                         IF Len(chunk) > 0 THEN Append(chunks, chunk) ELSE chunks)

chunkText(text) == chunkTextFrom(text, 0, <<>>)

\* the start, the end and the next start of every iteration of the while loop
\* of chunkText
RECURSIVE chunkWindowsFrom(_, _, _)
chunkWindowsFrom(text, start, windows) ==
  IF start >= Len(text) THEN windows
  ELSE LET end == ChunkEnd(text, start)
           next == NextStart(start, end)
       IN  chunkWindowsFrom(text, next,
                            Append(windows, [start |-> start, end |-> end, next |-> next]))

\* the iterations of the loop without `if (start >= end - CHUNK_OVERLAP) start = end`,
\* up to the first one that does not move start forward
RECURSIVE chunkWindowsNoForceFrom(_, _, _)
chunkWindowsNoForceFrom(text, start, windows) ==
  IF start >= Len(text) THEN windows
  ELSE LET end == ChunkEnd(text, start)
           next == IF end - CHUNK_OVERLAP < 0 THEN 0 ELSE end - CHUNK_OVERLAP
           iterations == Append(windows, [start |-> start, end |-> end, next |-> next])
       IN  IF next <= start THEN iterations
           ELSE chunkWindowsNoForceFrom(text, next, iterations)

chunkWindowsNoForce(text) == chunkWindowsNoForceFrom(text, 0, <<>>)

chunkWindows(text) == chunkWindowsFrom(text, 0, <<>>)

\* Array.prototype.join
RECURSIVE Join(_, _)
Join(parts, sep) ==
  IF parts = <<>> THEN <<>>
  ELSE IF Len(parts) = 1 THEN parts[1]
  ELSE parts[1] \o sep \o Join(Tail(parts), sep)

(***************************************************************************)
(* State of the pipeline.                                                  *)
(*   documents     the documents table; a document's id is its index      *)
(*   audioChunks   the audioChunks table, in insertion order               *)
(*   playbackState the playbackState table, in insertion order             *)
(*   ragIndex      the entries of the external index (rag.add)             *)
(*   ocrRuns       the scheduled and running ocr.processDocument actions   *)
(*   embRuns       the scheduled and running processDocumentEmbeddings     *)
(*   ttsRuns       the invoked processDocumentTTS / generateDocumentAudio  *)
(*   player        the AudioPlayer component of one client                 *)
(*   chunker       a text and the chunks the two chunkers return for it    *)
(*   chatMessages  the chatMessages table, in creation order               *)
(*   chatRuns      the invoked sendMessage actions                         *)
(* Absent optional fields: "none" for a status or a message, 0 for         *)
(* extractedText, -1 for chunkCount.                                       *)
(***************************************************************************)
VARIABLES documents, audioChunks, playbackState, ragIndex, ocrRuns, embRuns, ttsRuns,
          player, chunker, chatMessages, chatRuns

vars == <<documents, audioChunks, playbackState, ragIndex, ocrRuns, embRuns, ttsRuns,
          player, chunker, chatMessages, chatRuns>>


\* a sentence of TARGET_SIZE characters: the speech chunker emits it as one chunk
LongSentence == [i \in 1..(TARGET_SIZE - 1) |-> "a"] \o <<".">>

RECURSIVE Passage(_)
Passage(n) == IF n = 1 THEN LongSentence ELSE Passage(n - 1) \o <<" ">> \o LongSentence

\* a page of a scanned PDF without text: only the page marker
PageMarkerOnly == <<"-", "-", "-", " ", "P", "a", "g", "e", " ", "1", " ", "-", "-", "-">>

\* the texts the extraction service answers with: a blank, the page marker
\* and passages of 1..MaxSentences sentences
Texts == <<<<" ">>, PageMarkerOnly>> \o [n \in 1..MaxSentences |-> Passage(n)]

TextOf(t) == IF t = 0 THEN <<>> ELSE Texts[t]

\* result.text: 0 for a missing or empty text
OcrTexts == 0..Len(Texts)

\* the answers of the extraction step up to `const result = await response.json()`
OcrResponses ==
  {[kind |-> k, text |-> 0] : k \in {"noUrl", "noEndpoint", "notOk", "errorField"}}
  \cup {[kind |-> "json", text |-> t] : t \in OcrTexts}

\* the AudioPlayer before its queries have answered and before any audio is loaded
PlayerInit ==
  [playbackState |-> <<>>, audioChunks |-> <<>>, localIsPlaying |-> FALSE,
   hasTriggeredAutoPlay |-> FALSE, shouldContinuePlaying |-> FALSE,
   autoPlayTimer |-> FALSE]

\* no text has been handed to the chunkers
ChunkerInit ==
  [text |-> <<>>, applied |-> {}, chunkText |-> <<>>, windows |-> <<>>,
   chunkTextForTTS |-> <<>>]

Init ==
  /\ documents = <<>>
  /\ audioChunks = <<>>
  /\ playbackState = <<>>
  /\ ragIndex = {}
  /\ ocrRuns = <<>>
  /\ embRuns = <<>>
  /\ ttsRuns = <<>>
  /\ player = PlayerInit
  /\ chatMessages = <<>>
  /\ chatRuns = <<>>
  /\ chunker = ChunkerInit

(***************************************************************************)
(* convex/documents.ts                                                     *)
(***************************************************************************)
create ==
  /\ Len(documents) < MaxDocs
  /\ documents' = Append(documents,
       [status |-> "uploading", extractedText |-> 0, error |-> "none",
        embeddingStatus |-> "none", embeddingError |-> "none", chunkCount |-> -1,
        ttsStatus |-> "none", ttsError |-> "none"])
  /\ UNCHANGED <<audioChunks, playbackState, ragIndex, ocrRuns, embRuns, ttsRuns, player, chunker, chatMessages, chatRuns>>

triggerOCR(id) ==
  /\ Len(ocrRuns) < MaxOcrTriggers
  /\ documents' = [documents EXCEPT ![id].status = "processing"]
  /\ ocrRuns' = Append(ocrRuns,
       [documentId |-> id, pc |-> "scheduled", text |-> 0, message |-> "none",
        setEmbedding |-> FALSE, scheduled |-> FALSE, outcome |-> "none"])
  /\ UNCHANGED <<audioChunks, playbackState, ragIndex, embRuns, ttsRuns, player, chunker, chatMessages, chatRuns>>

\* patch(id, {status, extractedText?, error?}); an absent argument leaves the field
updateFromAction(docs, id, status, extractedText, error) ==
  [docs EXCEPT ![id] = [@ EXCEPT !.status = status,
                                 !.extractedText = IF extractedText = 0 THEN @ ELSE extractedText,
                                 !.error = IF error = "none" THEN @ ELSE error]]

\* patch(id, {embeddingStatus, embeddingError?, chunkCount?})
updateEmbeddingStatus(docs, id, embeddingStatus, embeddingError, chunkCount) ==
  [docs EXCEPT ![id] = [@ EXCEPT !.embeddingStatus = embeddingStatus,
                                 !.embeddingError = IF embeddingError = "none" THEN @ ELSE embeddingError,
                                 !.chunkCount = IF chunkCount = -1 THEN @ ELSE chunkCount]]

\* convex/tts.ts: patch(id, {ttsStatus, ttsError?})
updateTTSStatus(docs, id, ttsStatus, ttsError) ==
  [docs EXCEPT ![id] = [@ EXCEPT !.ttsStatus = ttsStatus,
                                 !.ttsError = IF ttsError = "none" THEN @ ELSE ttsError]]

(***************************************************************************)
(* convex/ocr.ts: processDocument, one action per awaited step.            *)
(***************************************************************************)
OcrErrorMessage(kind) ==
  CASE kind = "noUrl" -> "Failed to get file URL from storage"
    [] kind = "noEndpoint" -> "MODAL_OCR_ENDPOINT environment variable not set"
    [] kind = "notOk" -> "OCR endpoint error"
    [] kind = "errorField" -> "OCR error"
    [] OTHER -> "OCR endpoint returned no text"

\* OcrFetch without the check `if (!result.text)`
OcrFetchNoTextCheck(r) ==
  /\ ocrRuns[r].pc = "scheduled"
  /\ \E resp \in OcrResponses :
       IF resp.kind = "json"
       THEN ocrRuns' = [ocrRuns EXCEPT ![r].pc = "storeText", ![r].text = resp.text]
       ELSE ocrRuns' = [ocrRuns EXCEPT ![r].pc = "catch",
                                       ![r].message = OcrErrorMessage(resp.kind)]
  /\ UNCHANGED <<documents, audioChunks, playbackState, ragIndex, embRuns, ttsRuns, player, chunker, chatMessages, chatRuns>>

\* getInternal, storage.getUrl, fetch, response.json and the checks of the answer
OcrFetch(r) ==
  /\ ocrRuns[r].pc = "scheduled"
  /\ \E resp \in OcrResponses :
       IF resp.kind = "json" /\ resp.text # 0
       THEN ocrRuns' = [ocrRuns EXCEPT ![r].pc = "storeText", ![r].text = resp.text]
       ELSE ocrRuns' = [ocrRuns EXCEPT ![r].pc = "catch",
                                       ![r].message = OcrErrorMessage(resp.kind)]
  /\ UNCHANGED <<documents, audioChunks, playbackState, ragIndex, embRuns, ttsRuns, player, chunker, chatMessages, chatRuns>>

\* runMutation(updateFromAction, {status: "ready", extractedText})
OcrStoreText(r) ==
  /\ ocrRuns[r].pc = "storeText"
  /\ documents' = updateFromAction(documents, ocrRuns[r].documentId, "ready",
                                   ocrRuns[r].text, "none")
  /\ ocrRuns' = [ocrRuns EXCEPT ![r].pc = "markEmbedding", ![r].text = 0]
  /\ UNCHANGED <<audioChunks, playbackState, ragIndex, embRuns, ttsRuns, player, chunker, chatMessages, chatRuns>>

\* runMutation(updateEmbeddingStatus, {embeddingStatus: "processing"})
OcrMarkEmbedding(r) ==
  /\ ocrRuns[r].pc = "markEmbedding"
  /\ documents' = updateEmbeddingStatus(documents, ocrRuns[r].documentId,
                                        "processing", "none", -1)
  /\ ocrRuns' = [ocrRuns EXCEPT ![r].pc = "schedule", ![r].setEmbedding = TRUE]
  /\ UNCHANGED <<audioChunks, playbackState, ragIndex, embRuns, ttsRuns, player, chunker, chatMessages, chatRuns>>

\* scheduler.runAfter(0, processDocumentEmbeddings); the action returns
OcrSchedule(r) ==
  /\ ocrRuns[r].pc = "schedule"
  /\ embRuns' = Append(embRuns,
       [documentId |-> ocrRuns[r].documentId, pc |-> "scheduled", text |-> 0,
        chunkCount |-> -1, message |-> "none", seenStatus |-> "unread", added |-> FALSE])
  /\ ocrRuns' = [ocrRuns EXCEPT ![r].pc = "done", ![r].scheduled = TRUE,
                                ![r].outcome = "ready"]
  /\ UNCHANGED <<documents, audioChunks, playbackState, ragIndex, ttsRuns, player, chunker, chatMessages, chatRuns>>

\* an awaited call inside the try block after the answer was accepted rejects
OcrStepThrows(r) ==
  /\ ocrRuns[r].pc \in {"storeText", "markEmbedding", "schedule"}
  /\ ocrRuns' = [ocrRuns EXCEPT ![r].pc = "catch", ![r].text = 0,
                                ![r].message = "Unknown error during OCR processing"]
  /\ UNCHANGED <<documents, audioChunks, playbackState, ragIndex, embRuns, ttsRuns, player, chunker, chatMessages, chatRuns>>

\* OcrCatch that logs the error and writes nothing
OcrCatchLogsOnly(r) ==
  /\ ocrRuns[r].pc = "catch"
  /\ ocrRuns' = [ocrRuns EXCEPT ![r].pc = "done", ![r].outcome = "error"]
  /\ UNCHANGED <<documents, audioChunks, playbackState, ragIndex, embRuns, ttsRuns, player, chunker, chatMessages, chatRuns>>

\* catch: runMutation(updateFromAction, {status: "error", error})
OcrCatch(r) ==
  /\ ocrRuns[r].pc = "catch"
  /\ documents' = updateFromAction(documents, ocrRuns[r].documentId, "error",
                                   0, ocrRuns[r].message)
  /\ ocrRuns' = [ocrRuns EXCEPT ![r].pc = "done", ![r].outcome = "error"]
  /\ UNCHANGED <<audioChunks, playbackState, ragIndex, embRuns, ttsRuns, player, chunker, chatMessages, chatRuns>>

(***************************************************************************)
(* convex/embeddings.ts: processDocumentEmbeddings.                        *)
(***************************************************************************)
\* EmbGetDocument without `if (chunks.length === 0) throw`
EmbGetDocumentNoEmptyCheck(r) ==
  LET document == documents[embRuns[r].documentId]
  IN  /\ embRuns[r].pc = "scheduled"
      /\ embRuns' =
           IF document.extractedText = 0
           THEN [embRuns EXCEPT ![r].pc = "catch",
                                ![r].seenStatus = document.embeddingStatus,
                                ![r].message = "Document has no extracted text"]
           ELSE [embRuns EXCEPT ![r].pc = "ragAdd",
                                ![r].seenStatus = document.embeddingStatus,
                                ![r].text = document.extractedText,
                                ![r].chunkCount =
                                  Len(chunkText(TextOf(document.extractedText)))]
      /\ UNCHANGED <<documents, audioChunks, playbackState, ragIndex, ocrRuns, ttsRuns, player, chunker, chatMessages, chatRuns>>

\* getInternal, the checks of the document and chunkText
EmbGetDocument(r) ==
  LET document == documents[embRuns[r].documentId]
      chunks == chunkText(TextOf(document.extractedText))
  IN  /\ embRuns[r].pc = "scheduled"
      /\ embRuns' =
           IF document.extractedText = 0
           THEN [embRuns EXCEPT ![r].pc = "catch",
                                ![r].seenStatus = document.embeddingStatus,
                                ![r].message = "Document has no extracted text"]
           ELSE IF Len(chunks) = 0
           THEN [embRuns EXCEPT ![r].pc = "catch",
                                ![r].seenStatus = document.embeddingStatus,
                                ![r].message = "No chunks created from document text"]
           ELSE [embRuns EXCEPT ![r].pc = "ragAdd",
                                ![r].seenStatus = document.embeddingStatus,
                                ![r].text = document.extractedText,
                                ![r].chunkCount = Len(chunks)]
      /\ UNCHANGED <<documents, audioChunks, playbackState, ragIndex, ocrRuns, ttsRuns, player, chunker, chatMessages, chatRuns>>

\* the text handed to rag.add for the extracted text t: chunks.join("\n\n")
IndexedText(t) == Join(chunkText(TextOf(t)), <<"\n", "\n">>)

\* rag.add(ctx, {namespace: documentId, key: documentId, text}) returns; the
\* entry holds the extracted text t it was made from, its text is IndexedText(t)
EmbRagAdd(r) ==
  LET id == embRuns[r].documentId
  IN  /\ embRuns[r].pc = "ragAdd"
      /\ ragIndex' = {e \in ragIndex : ~(e.namespace = id /\ e.key = id)}
                     \cup {[namespace |-> id, key |-> id, text |-> embRuns[r].text]}
      /\ embRuns' = [embRuns EXCEPT ![r].pc = "markReady", ![r].text = 0,
                                    ![r].added = TRUE]
      /\ UNCHANGED <<documents, audioChunks, playbackState, ocrRuns, ttsRuns, player, chunker, chatMessages, chatRuns>>

\* rag.add throws (the embedding endpoint answers with an error)
EmbRagAddThrows(r) ==
  /\ embRuns[r].pc = "ragAdd"
  /\ embRuns' = [embRuns EXCEPT ![r].pc = "catch", ![r].text = 0,
                                ![r].added = TRUE,
                                ![r].message = "Modal embedding error"]
  /\ UNCHANGED <<documents, audioChunks, playbackState, ragIndex, ocrRuns, ttsRuns, player, chunker, chatMessages, chatRuns>>

\* searchDocument without the namespace: the search runs over the whole index
searchAllNamespaces(index, id) == index

\* searchDocument: rag.search(ctx, {namespace: documentId, query, limit}); the
\* entries the indexer searches for the query
searchDocument(index, id) == {e \in index : e.namespace = id}

\* runMutation(updateEmbeddingStatus, {embeddingStatus: "ready", chunkCount})
EmbMarkReady(r) ==
  /\ embRuns[r].pc = "markReady"
  /\ documents' = updateEmbeddingStatus(documents, embRuns[r].documentId, "ready",
                                        "none", embRuns[r].chunkCount)
  /\ embRuns' = [embRuns EXCEPT ![r].pc = "done"]
  /\ UNCHANGED <<audioChunks, playbackState, ragIndex, ocrRuns, ttsRuns, player, chunker, chatMessages, chatRuns>>

\* catch: runMutation(updateEmbeddingStatus, {embeddingStatus: "error", embeddingError})
EmbCatch(r) ==
  /\ embRuns[r].pc = "catch"
  /\ documents' = updateEmbeddingStatus(documents, embRuns[r].documentId, "error",
                                        embRuns[r].message, -1)
  /\ embRuns' = [embRuns EXCEPT ![r].pc = "done"]
  /\ UNCHANGED <<audioChunks, playbackState, ragIndex, ocrRuns, ttsRuns, player, chunker, chatMessages, chatRuns>>

(***************************************************************************)
(* convex/tts.ts: processDocumentTTS (kind "auto") and                     *)
(* generateDocumentAudio (kind "manual"), one action per awaited step.     *)
(* attempts[i + 1] counts the synthesis requests a run has sent for chunk  *)
(* i, failed is the set of chunk indices whose job the run gave up.        *)
(***************************************************************************)
\* the action is invoked
InvokeTTS(id, kind) ==
  /\ Len(ttsRuns) < MaxTtsRuns
  /\ ttsRuns' = Append(ttsRuns,
       [kind |-> kind, documentId |-> id, pc |-> "start", text |-> 0,
        seenStatus |-> "unread", chunks |-> <<>>, n |-> 0, i |-> 0,
        successCount |-> 0, attempts |-> <<>>, failed |-> {}, result |-> "none"])
  /\ UNCHANGED <<documents, audioChunks, playbackState, ragIndex, ocrRuns, embRuns, player, chunker, chatMessages, chatRuns>>

processDocumentTTS(id) == InvokeTTS(id, "auto")

generateDocumentAudio(id) == InvokeTTS(id, "manual")

\* the status guard: `processing` or `ready` for processDocumentTTS,
\* `processing` for generateDocumentAudio
TtsGuard(kind, ttsStatus) ==
  IF kind = "auto" THEN ttsStatus \in {"processing", "ready"}
  ELSE ttsStatus = "processing"

\* runQuery(getDocumentInternal) and the checks of the document
TtsGetDocument(r) ==
  LET run == ttsRuns[r]
      document == documents[run.documentId]
  IN  /\ run.pc = "start"
      /\ ttsRuns' =
           IF document.extractedText = 0
           THEN [ttsRuns EXCEPT ![r].pc = "done", ![r].result = "noText",
                                ![r].seenStatus = document.ttsStatus]
           ELSE IF TtsGuard(run.kind, document.ttsStatus)
           THEN [ttsRuns EXCEPT ![r].pc = "done", ![r].result = "skipped",
                                ![r].seenStatus = document.ttsStatus]
           ELSE [ttsRuns EXCEPT ![r].pc = "listChunks",
                                ![r].text = document.extractedText,
                                ![r].seenStatus = document.ttsStatus]
      /\ UNCHANGED <<documents, audioChunks, playbackState, ragIndex, ocrRuns, embRuns, player, chunker, chatMessages, chatRuns>>

\* listAudioChunksInternal: the rows of the document
listAudioChunksInternal(id) ==
  SelectSeq(audioChunks, LAMBDA row : row.documentId = id)

\* runQuery(listAudioChunksInternal) and the check of existingChunks.length
TtsListChunks(r) ==
  LET run == ttsRuns[r]
      existingChunks == listAudioChunksInternal(run.documentId)
  IN  /\ run.pc = "listChunks"
      /\ ttsRuns' =
           IF Len(existingChunks) > 0
           THEN IF run.kind = "auto"
                THEN [ttsRuns EXCEPT ![r].pc = "shortCircuit", ![r].text = 0]
                ELSE [ttsRuns EXCEPT ![r].pc = "done", ![r].text = 0,
                                     ![r].result = "skipped"]
           ELSE [ttsRuns EXCEPT ![r].pc = "markProcessing"]
      /\ UNCHANGED <<documents, audioChunks, playbackState, ragIndex, ocrRuns, embRuns, player, chunker, chatMessages, chatRuns>>

\* processDocumentTTS, audio exists: runMutation(updateTTSStatus, {ttsStatus: "ready"})
TtsShortCircuit(r) ==
  /\ ttsRuns[r].pc = "shortCircuit"
  /\ documents' = updateTTSStatus(documents, ttsRuns[r].documentId, "ready", "none")
  /\ ttsRuns' = [ttsRuns EXCEPT ![r].pc = "done", ![r].result = "shortCircuit"]
  /\ UNCHANGED <<audioChunks, playbackState, ragIndex, ocrRuns, embRuns, player, chunker, chatMessages, chatRuns>>

\* const chunks = chunkTextForTTS(cleanOCRText(document.extractedText))
TtsChunks == [t \in OcrTexts |-> chunkTextForTTS(cleanOCRText(TextOf(t)))]

\* the run keeps the offsets of its chunks; the chunk text only goes to the
\* synthesis endpoint
TtsStart(run, chunks) ==
  [run EXCEPT !.pc = "initPlayback", !.text = 0,
              !.chunks = [k \in 1..Len(chunks) |->
                            [startCharIndex |-> chunks[k].startCharIndex,
                             endCharIndex |-> chunks[k].endCharIndex]],
              !.n = Len(chunks),
              !.attempts = [k \in 1..Len(chunks) |-> 0]]

\* runMutation(updateTTSStatus, {ttsStatus: "processing"}), then cleanOCRText
\* and chunkTextForTTS on the text read by TtsGetDocument
TtsMarkProcessing(r) ==
  /\ ttsRuns[r].pc = "markProcessing"
  /\ documents' = updateTTSStatus(documents, ttsRuns[r].documentId, "processing", "none")
  /\ ttsRuns' = [ttsRuns EXCEPT ![r] = TtsStart(@, TtsChunks[@.text])]
  /\ UNCHANGED <<audioChunks, playbackState, ragIndex, ocrRuns, embRuns, player, chunker, chatMessages, chatRuns>>

\* the loop condition i < chunks.length
LoopPc(i, n) == IF i < n THEN "call" ELSE "finish"

\* initPlaybackStateInternal: insert a row unless the document has one
initPlaybackStateInternal(rows, id) ==
  IF \E k \in 1..Len(rows) : rows[k].documentId = id THEN rows
  ELSE Append(rows, [documentId |-> id, currentChunkIndex |-> 0, isPlaying |-> FALSE])

\* runMutation(initPlaybackStateInternal)
TtsInitPlayback(r) ==
  /\ ttsRuns[r].pc = "initPlayback"
  /\ playbackState' = initPlaybackStateInternal(playbackState, ttsRuns[r].documentId)
  /\ ttsRuns' = [ttsRuns EXCEPT ![r].pc = LoopPc(0, ttsRuns[r].n)]
  /\ UNCHANGED <<documents, audioChunks, ragIndex, ocrRuns, embRuns, player, chunker, chatMessages, chatRuns>>

\* generateSingleChunk: the request to the synthesis endpoint is sent
TtsCall(r) ==
  /\ ttsRuns[r].pc = "call"
  /\ ttsRuns' = [ttsRuns EXCEPT ![r].pc = "fetch",
                                ![r].attempts[ttsRuns[r].i + 1] = @ + 1]
  /\ UNCHANGED <<documents, audioChunks, playbackState, ragIndex, ocrRuns, embRuns, player, chunker, chatMessages, chatRuns>>

\* generateSingleChunk: response.ok
TtsResponseOk(r) ==
  /\ ttsRuns[r].pc = "fetch"
  /\ ttsRuns' = [ttsRuns EXCEPT ![r].pc = "save"]
  /\ UNCHANGED <<documents, audioChunks, playbackState, ragIndex, ocrRuns, embRuns, player, chunker, chatMessages, chatRuns>>

\* generateSingleChunk throws: processDocumentTTS catches it and goes on with
\* the next chunk, generateDocumentAudio rejects
TtsResponseFail(r) ==
  LET run == ttsRuns[r]
  IN  /\ run.pc = "fetch"
      /\ ttsRuns' =
           IF run.kind = "auto"
           THEN [ttsRuns EXCEPT ![r].pc = LoopPc(run.i + 1, run.n),
                                ![r].i = run.i + 1,
                                ![r].failed = run.failed \cup {run.i}]
           ELSE [ttsRuns EXCEPT ![r].pc = "done", ![r].result = "threw",
                                ![r].chunks = <<>>,
                                ![r].failed = run.failed \cup {run.i}]
      /\ UNCHANGED <<documents, audioChunks, playbackState, ragIndex, ocrRuns, embRuns, player, chunker, chatMessages, chatRuns>>

\* saveAudioChunk: insert one row
saveAudioChunk(rows, id, chunkIndex, startCharIndex, endCharIndex) ==
  Append(rows, [documentId |-> id, chunkIndex |-> chunkIndex,
                startCharIndex |-> startCharIndex, endCharIndex |-> endCharIndex])

\* TtsSave that also moves the playback position to the chunk it stored
TtsSaveMovesPlayback(r) ==
  LET run == ttsRuns[r]
      chunk == run.chunks[run.i + 1]
  IN  /\ run.pc = "save"
      /\ audioChunks' = Append(audioChunks,
           [documentId |-> run.documentId, chunkIndex |-> run.i,
            startCharIndex |-> chunk.startCharIndex, endCharIndex |-> chunk.endCharIndex])
      /\ playbackState' =
           [k \in 1..Len(playbackState) |->
              IF playbackState[k].documentId = run.documentId
              THEN [playbackState[k] EXCEPT !.currentChunkIndex = run.i]
              ELSE playbackState[k]]
      /\ ttsRuns' = [ttsRuns EXCEPT ![r].pc = LoopPc(run.i + 1, run.n),
                                    ![r].i = run.i + 1,
                                    ![r].successCount = run.successCount + 1]
      /\ UNCHANGED <<documents, ragIndex, ocrRuns, embRuns, player, chunker, chatMessages, chatRuns>>

\* generateSingleChunk: runMutation(saveAudioChunk); back in the loop successCount++
TtsSave(r) ==
  LET run == ttsRuns[r]
      chunk == run.chunks[run.i + 1]
  IN  /\ run.pc = "save"
      /\ audioChunks' = saveAudioChunk(audioChunks, run.documentId, run.i,
                                       chunk.startCharIndex, chunk.endCharIndex)
      /\ ttsRuns' = [ttsRuns EXCEPT ![r].pc = LoopPc(run.i + 1, run.n),
                                    ![r].i = run.i + 1,
                                    ![r].successCount = run.successCount + 1]
      /\ UNCHANGED <<documents, playbackState, ragIndex, ocrRuns, embRuns, player, chunker, chatMessages, chatRuns>>

\* after the loop: processDocumentTTS sets ready if successCount > 0 and error
\* otherwise, generateDocumentAudio sets ready
TtsFinish(r) ==
  LET run == ttsRuns[r]
  IN  /\ run.pc = "finish"
      /\ documents' =
           IF run.kind = "auto" /\ run.successCount = 0
           THEN updateTTSStatus(documents, run.documentId, "error",
                                "All chunks failed to generate")
           ELSE updateTTSStatus(documents, run.documentId, "ready", "none")
      /\ ttsRuns' = [ttsRuns EXCEPT ![r].pc = "done", ![r].result = "finished",
                                    ![r].chunks = <<>>]
      /\ UNCHANGED <<audioChunks, playbackState, ragIndex, ocrRuns, embRuns, player, chunker, chatMessages, chatRuns>>

(***************************************************************************)
(* Spec: upload, extraction and indexing, from the empty database.         *)
(***************************************************************************)
Next ==
  \/ create
  \/ \E id \in 1..Len(documents) : triggerOCR(id)
  \/ \E r \in 1..Len(ocrRuns) : OcrFetch(r)
  \/ \E r \in 1..Len(ocrRuns) : OcrStoreText(r)
  \/ \E r \in 1..Len(ocrRuns) : OcrMarkEmbedding(r)
  \/ \E r \in 1..Len(ocrRuns) : OcrSchedule(r)
  \/ \E r \in 1..Len(ocrRuns) : OcrStepThrows(r)
  \/ \E r \in 1..Len(ocrRuns) : OcrCatch(r)
  \/ \E r \in 1..Len(embRuns) : EmbGetDocument(r)
  \/ \E r \in 1..Len(embRuns) : EmbRagAdd(r)
  \/ \E r \in 1..Len(embRuns) : EmbRagAddThrows(r)
  \/ \E r \in 1..Len(embRuns) : EmbMarkReady(r)
  \/ \E r \in 1..Len(embRuns) : EmbCatch(r)

Spec == Init /\ [][Next]_vars

(***************************************************************************)
(* SpecOcr: create, triggerOCR and the runs of ocr.processDocument.  The   *)
(* scheduler runs every scheduled action and an action that can take a     *)
(* step takes one: the steps of the runs are weakly fair.  The indexing    *)
(* runs that processDocument schedules do not start.                       *)
(***************************************************************************)
\* a step of a run of ocr.processDocument that the run takes when nothing rejects
OcrRunStep ==
  \E r \in 1..Len(ocrRuns) :
    \/ OcrFetch(r)
    \/ OcrStoreText(r)
    \/ OcrMarkEmbedding(r)
    \/ OcrSchedule(r)
    \/ OcrCatch(r)

NextOcr ==
  \/ create
  \/ \E id \in 1..Len(documents) : triggerOCR(id)
  \/ OcrRunStep
  \/ \E r \in 1..Len(ocrRuns) : OcrStepThrows(r)

SpecOcr == Init /\ [][NextOcr]_vars /\ WF_vars(OcrRunStep)

(***************************************************************************)
(* SpecSpeech: the speech stage of a document whose extraction run and     *)
(* indexing run have ended, for each text the extraction can have stored.  *)
(* A client may invoke triggerOCR again; the run it schedules has not      *)
(* started.                                                                *)
(***************************************************************************)
\* the state one triggerOCR leaves behind when its run stored text and the
\* indexing run it scheduled has ended
Ingested(text) ==
  LET chunks == chunkText(TextOf(text))
      indexed == Len(chunks) > 0
  IN  /\ documents = <<[status |-> "ready", extractedText |-> text, error |-> "none",
                        embeddingStatus |-> IF indexed THEN "ready" ELSE "error",
                        embeddingError |-> IF indexed THEN "none"
                                           ELSE "No chunks created from document text",
                        chunkCount |-> IF indexed THEN Len(chunks) ELSE -1,
                        ttsStatus |-> "none", ttsError |-> "none"]>>
      /\ ragIndex = IF indexed
                    THEN {[namespace |-> 1, key |-> 1, text |-> text]}
                    ELSE {}
      /\ ocrRuns = <<[documentId |-> 1, pc |-> "done", text |-> 0, message |-> "none",
                      setEmbedding |-> TRUE, scheduled |-> TRUE, outcome |-> "ready"]>>
      /\ embRuns = <<[documentId |-> 1, pc |-> "done", text |-> 0,
                      chunkCount |-> IF indexed THEN Len(chunks) ELSE -1,
                      message |-> IF indexed THEN "none"
                                  ELSE "No chunks created from document text",
                      seenStatus |-> "processing", added |-> indexed]>>

InitSpeech ==
  /\ \E text \in OcrTexts \ {0} : Ingested(text)
  /\ audioChunks = <<>>
  /\ playbackState = <<>>
  /\ ttsRuns = <<>>
  /\ player = PlayerInit
  /\ chatMessages = <<>>
  /\ chatRuns = <<>>
  /\ chunker = ChunkerInit

NextSpeech ==
  \/ \E id \in 1..Len(documents) : triggerOCR(id)
  \/ \E id \in 1..Len(documents) : processDocumentTTS(id)
  \/ \E id \in 1..Len(documents) : generateDocumentAudio(id)
  \/ \E r \in 1..Len(ttsRuns) : TtsGetDocument(r)
  \/ \E r \in 1..Len(ttsRuns) : TtsListChunks(r)
  \/ \E r \in 1..Len(ttsRuns) : TtsShortCircuit(r)
  \/ \E r \in 1..Len(ttsRuns) : TtsMarkProcessing(r)
  \/ \E r \in 1..Len(ttsRuns) : TtsInitPlayback(r)
  \/ \E r \in 1..Len(ttsRuns) : TtsCall(r)
  \/ \E r \in 1..Len(ttsRuns) : TtsResponseOk(r)
  \/ \E r \in 1..Len(ttsRuns) : TtsResponseFail(r)
  \/ \E r \in 1..Len(ttsRuns) : TtsSave(r)
  \/ \E r \in 1..Len(ttsRuns) : TtsFinish(r)

SpecSpeech == InitSpeech /\ [][NextSpeech]_vars

\* the initial states of SpecSpeech are states of Spec
IngestedReached == \E text \in OcrTexts \ {0} : Ingested(text)

(***************************************************************************)
(* SpecIndex: the indexing stage of two documents.  The extraction run of  *)
(* each has stored a text, set embeddingStatus "processing" and scheduled  *)
(* processDocumentEmbeddings; the two indexing runs interleave.            *)
(***************************************************************************)
Extracted(text) ==
  [status |-> "ready", extractedText |-> text, error |-> "none",
   embeddingStatus |-> "processing", embeddingError |-> "none", chunkCount |-> -1,
   ttsStatus |-> "none", ttsError |-> "none"]

InitIndex ==
  /\ \E t1, t2 \in OcrTexts \ {0} : documents = <<Extracted(t1), Extracted(t2)>>
  /\ ocrRuns = [id \in 1..2 |->
                  [documentId |-> id, pc |-> "done", text |-> 0, message |-> "none",
                   setEmbedding |-> TRUE, scheduled |-> TRUE, outcome |-> "ready"]]
  /\ embRuns = [id \in 1..2 |->
                  [documentId |-> id, pc |-> "scheduled", text |-> 0, chunkCount |-> -1,
                   message |-> "none", seenStatus |-> "unread", added |-> FALSE]]
  /\ ragIndex = {}
  /\ audioChunks = <<>>
  /\ playbackState = <<>>
  /\ ttsRuns = <<>>
  /\ player = PlayerInit
  /\ chatMessages = <<>>
  /\ chatRuns = <<>>
  /\ chunker = ChunkerInit

NextIndex ==
  \/ \E r \in 1..Len(embRuns) : EmbGetDocument(r)
  \/ \E r \in 1..Len(embRuns) : EmbRagAdd(r)
  \/ \E r \in 1..Len(embRuns) : EmbRagAddThrows(r)
  \/ \E r \in 1..Len(embRuns) : EmbMarkReady(r)
  \/ \E r \in 1..Len(embRuns) : EmbCatch(r)

SpecIndex == InitIndex /\ [][NextIndex]_vars

(***************************************************************************)
(* SpecBurst: MaxBurst documents hold the same one-sentence text.  A       *)
(* client goes through them in order and invokes generateDocumentAudio on  *)
(* the next one when the runs of the earlier ones have sent their          *)
(* synthesis request or have ended.  The synthesis endpoint is slow: a     *)
(* request stays pending or fails.  Every behaviour of SpecBurst is a      *)
(* behaviour of the program under this client and this endpoint.           *)
(***************************************************************************)
BurstText == 3

InitBurst ==
  /\ documents = [id \in 1..MaxBurst |->
                    [status |-> "ready", extractedText |-> BurstText, error |-> "none",
                     embeddingStatus |-> "ready", embeddingError |-> "none",
                     chunkCount |-> Len(chunkText(TextOf(BurstText))),
                     ttsStatus |-> "none", ttsError |-> "none"]]
  /\ ragIndex = {[namespace |-> id, key |-> id, text |-> BurstText] : id \in 1..MaxBurst}
  /\ ocrRuns = <<>>
  /\ embRuns = <<>>
  /\ audioChunks = <<>>
  /\ playbackState = <<>>
  /\ ttsRuns = <<>>
  /\ player = PlayerInit
  /\ chatMessages = <<>>
  /\ chatRuns = <<>>
  /\ chunker = ChunkerInit

\* the client invokes generateDocumentAudio on the next document
BurstInvoke ==
  /\ Len(ttsRuns) < MaxBurst
  /\ \A r \in 1..Len(ttsRuns) : ttsRuns[r].pc \in {"fetch", "done"}
  /\ ttsRuns' = Append(ttsRuns,
       [kind |-> "manual", documentId |-> Len(ttsRuns) + 1, pc |-> "start", text |-> 0,
        seenStatus |-> "unread", chunks |-> <<>>, n |-> 0, i |-> 0,
        successCount |-> 0, attempts |-> <<>>, failed |-> {}, result |-> "none"])
  /\ UNCHANGED <<documents, audioChunks, playbackState, ragIndex, ocrRuns, embRuns, player, chunker, chatMessages, chatRuns>>

NextBurst ==
  \/ BurstInvoke
  \/ \E r \in 1..Len(ttsRuns) : TtsGetDocument(r)
  \/ \E r \in 1..Len(ttsRuns) : TtsListChunks(r)
  \/ \E r \in 1..Len(ttsRuns) : TtsMarkProcessing(r)
  \/ \E r \in 1..Len(ttsRuns) : TtsInitPlayback(r)
  \/ \E r \in 1..Len(ttsRuns) : TtsCall(r)
  \/ \E r \in 1..Len(ttsRuns) : TtsResponseFail(r)

SpecBurst == InitBurst /\ [][NextBurst]_vars

(***************************************************************************)
(* Playback (convex/tts.ts, AudioPlayer, DocumentPage).                    *)
(* A mutation's arguments are a record; an optional argument that is not   *)
(* passed is not a field of it.  updatedAt is not modelled.                *)
(***************************************************************************)
\* getPlaybackState: the rows of the document; .unique() answers null for none,
\* the row for one, and throws for more
getPlaybackState(rows, id) == SelectSeq(rows, LAMBDA row : row.documentId = id)

\* updatePlaybackState that inserts without looking for the document's row
updatePlaybackStateNoLookup(rows, args) ==
  Append(rows,
    [documentId |-> args.documentId,
     currentChunkIndex |-> IF "currentChunkIndex" \in DOMAIN args
                           THEN args.currentChunkIndex ELSE 0,
     isPlaying |-> IF "isPlaying" \in DOMAIN args THEN args.isPlaying ELSE FALSE])

\* updatePlaybackState: patch the fields passed, or insert with the defaults
updatePlaybackState(rows, args) ==
  LET existing == {k \in 1..Len(rows) : rows[k].documentId = args.documentId}
  IN  IF Cardinality(existing) > 1 THEN rows
      ELSE IF existing # {}
      THEN [k \in 1..Len(rows) |->
              IF k \in existing
              THEN [documentId |-> rows[k].documentId,
                    currentChunkIndex |-> IF "currentChunkIndex" \in DOMAIN args
                                          THEN args.currentChunkIndex
                                          ELSE rows[k].currentChunkIndex,
                    isPlaying |-> IF "isPlaying" \in DOMAIN args
                                  THEN args.isPlaying ELSE rows[k].isPlaying]
              ELSE rows[k]]
      ELSE Append(rows,
             [documentId |-> args.documentId,
              currentChunkIndex |-> IF "currentChunkIndex" \in DOMAIN args
                                    THEN args.currentChunkIndex ELSE 0,
              isPlaying |-> IF "isPlaying" \in DOMAIN args THEN args.isPlaying ELSE FALSE])

\* initPlaybackState: the public twin of initPlaybackStateInternal
initPlaybackState(rows, id) ==
  IF getPlaybackState(rows, id) # <<>> THEN rows
  ELSE Append(rows, [documentId |-> id, currentChunkIndex |-> 0, isPlaying |-> FALSE])

\* listAudioChunks: the document's chunks sorted by chunkIndex
listAudioChunks(rows, id) ==
  SortSeq(SelectSeq(rows, LAMBDA row : row.documentId = id),
          LAMBDA a, b : a.chunkIndex < b.chunkIndex)

\* the document the page and its AudioPlayer show
PlayerDoc == 1

\* const currentChunkIndex = playbackState?.currentChunkIndex ?? 0
currentChunkIndex(p) ==
  IF p.playbackState = <<>> THEN 0 ELSE p.playbackState[1].currentChunkIndex

\* const totalChunks = audioChunks?.length ?? 0
totalChunks(p) == Len(p.audioChunks)

\* const currentChunk = audioChunks?.[currentChunkIndex]: <<>> for undefined
currentChunk(p) ==
  IF currentChunkIndex(p) \in 0..(totalChunks(p) - 1)
  THEN <<p.audioChunks[currentChunkIndex(p) + 1]>>
  ELSE <<>>

\* playbackState?.isPlaying
ViewIsPlaying(p) == p.playbackState # <<>> /\ p.playbackState[1].isPlaying


\* the tables and runs a step of the player leaves alone, apart from playbackState
PlayerFrame == UNCHANGED <<documents, audioChunks, ragIndex, ocrRuns, embRuns, ttsRuns, chunker, chatMessages, chatRuns>>

\* the two queries answer anew; the component renders and its effects run:
\* the auto-play effect, the sync effect and the load effect, in this order
PlayerRender ==
  LET state == getPlaybackState(playbackState, PlayerDoc)
      view == [player EXCEPT !.playbackState = state,
                             !.audioChunks = listAudioChunks(audioChunks, PlayerDoc)]
      loaded == currentChunk(view) # <<>>
      urlChanged == currentChunk(view) # currentChunk(player)
      autoPlay == totalChunks(view) > 0 /\ ~player.hasTriggeredAutoPlay /\ loaded
      sync == /\ loaded
              /\ urlChanged \/ ViewIsPlaying(view) # ViewIsPlaying(player)
              /\ ViewIsPlaying(view)
              /\ ~player.localIsPlaying
      load == /\ player.hasTriggeredAutoPlay \/ autoPlay
              /\ loaded
              /\ urlChanged
              /\ player.shouldContinuePlaying \/ autoPlay \/ sync \/ player.localIsPlaying
  IN  /\ Len(state) <= 1
      /\ view # player
      /\ player' = [view EXCEPT !.hasTriggeredAutoPlay = @ \/ autoPlay,
                                !.autoPlayTimer = @ \/ autoPlay,
                                !.shouldContinuePlaying = (@ \/ autoPlay \/ sync) /\ ~load,
                                !.localIsPlaying = @ \/ sync \/ load]
      /\ UNCHANGED playbackState
      /\ PlayerFrame

\* the timer of the auto-play effect: audio.play() and isPlaying: true
AutoPlayTimeout ==
  /\ player.autoPlayTimer
  /\ player' = [player EXCEPT !.autoPlayTimer = FALSE, !.localIsPlaying = TRUE]
  /\ playbackState' = updatePlaybackState(playbackState,
                        [documentId |-> PlayerDoc, isPlaying |-> TRUE])
  /\ PlayerFrame

\* handleEnded with the comparison against totalChunks instead of totalChunks - 1
handleEndedPastLast ==
  /\ player.localIsPlaying
  /\ ~player.autoPlayTimer
  /\ IF currentChunkIndex(player) < totalChunks(player)
     THEN /\ player' = [player EXCEPT !.shouldContinuePlaying = TRUE,
                                      !.localIsPlaying = FALSE]
          /\ playbackState' = updatePlaybackState(playbackState,
               [documentId |-> PlayerDoc,
                currentChunkIndex |-> currentChunkIndex(player) + 1])
     ELSE /\ player' = [player EXCEPT !.shouldContinuePlaying = FALSE,
                                      !.localIsPlaying = FALSE]
          /\ playbackState' = updatePlaybackState(playbackState,
               [documentId |-> PlayerDoc, isPlaying |-> FALSE])
  /\ PlayerFrame

\* the audio element's `ended` event: the chunk that was playing has finished
\* (a chunk lasts longer than the 100 ms timer of the auto-play effect)
handleEnded ==
  /\ player.localIsPlaying
  /\ ~player.autoPlayTimer
  /\ IF currentChunkIndex(player) < totalChunks(player) - 1
     THEN /\ player' = [player EXCEPT !.shouldContinuePlaying = TRUE,
                                      !.localIsPlaying = FALSE]
          /\ playbackState' = updatePlaybackState(playbackState,
               [documentId |-> PlayerDoc,
                currentChunkIndex |-> currentChunkIndex(player) + 1])
     ELSE /\ player' = [player EXCEPT !.shouldContinuePlaying = FALSE,
                                      !.localIsPlaying = FALSE]
          /\ playbackState' = updatePlaybackState(playbackState,
               [documentId |-> PlayerDoc, isPlaying |-> FALSE])
  /\ PlayerFrame

\* the play/pause button; audio.play() starts nothing before a chunk was loaded
togglePlayPause ==
  /\ IF player.localIsPlaying
     THEN /\ player' = [player EXCEPT !.shouldContinuePlaying = FALSE,
                                      !.localIsPlaying = FALSE]
          /\ playbackState' = updatePlaybackState(playbackState,
               [documentId |-> PlayerDoc, isPlaying |-> FALSE])
     ELSE /\ player' = [player EXCEPT !.shouldContinuePlaying = TRUE,
                                      !.localIsPlaying = player.hasTriggeredAutoPlay]
          /\ playbackState' = updatePlaybackState(playbackState,
               [documentId |-> PlayerDoc, isPlaying |-> TRUE])
  /\ PlayerFrame

\* skipBack within the first two seconds of the chunk
skipBack ==
  /\ currentChunkIndex(player) > 0
  /\ playbackState' = updatePlaybackState(playbackState,
       [documentId |-> PlayerDoc, currentChunkIndex |-> currentChunkIndex(player) - 1])
  /\ UNCHANGED player
  /\ PlayerFrame

skipForward ==
  /\ currentChunkIndex(player) < totalChunks(player) - 1
  /\ playbackState' = updatePlaybackState(playbackState,
       [documentId |-> PlayerDoc, currentChunkIndex |-> currentChunkIndex(player) + 1])
  /\ UNCHANGED player
  /\ PlayerFrame

\* DocumentPage.handleChunkClick: a click on the text of a listed chunk
handleChunkClick ==
  /\ \E k \in 1..totalChunks(player) :
       playbackState' = updatePlaybackState(playbackState,
         [documentId |-> PlayerDoc,
          currentChunkIndex |-> player.audioChunks[k].chunkIndex,
          isPlaying |-> TRUE])
  /\ UNCHANGED player
  /\ PlayerFrame

\* the numbers a client passes as currentChunkIndex: the validator is v.number()
ApiIndices == (-1)..MaxApiIndex

\* a client calls the public mutation updatePlaybackState
ApiUpdatePlaybackState ==
  /\ \E i \in ApiIndices :
       playbackState' = updatePlaybackState(playbackState,
         [documentId |-> PlayerDoc, currentChunkIndex |-> i])
  /\ UNCHANGED player
  /\ PlayerFrame

\* a client calls the public mutation initPlaybackState
ApiInitPlaybackState ==
  /\ playbackState' = initPlaybackState(playbackState, PlayerDoc)
  /\ UNCHANGED player
  /\ PlayerFrame

(***************************************************************************)
(* SpecPlayback: a document whose extraction stored a passage of           *)
(* MaxSentences sentences and started processDocumentTTS.  The page of the *)
(* document is open in one client while the run synthesizes the chunks;    *)
(* other clients call the two public playback mutations.                   *)
(***************************************************************************)
InitPlayback ==
  /\ Ingested(Len(Texts))
  /\ audioChunks = <<>>
  /\ playbackState = <<>>
  /\ ttsRuns = <<[kind |-> "auto", documentId |-> PlayerDoc, pc |-> "start", text |-> 0,
                  seenStatus |-> "unread", chunks |-> <<>>, n |-> 0, i |-> 0,
                  successCount |-> 0, attempts |-> <<>>, failed |-> {}, result |-> "none"]>>
  /\ player = PlayerInit
  /\ chatMessages = <<>>
  /\ chatRuns = <<>>
  /\ chunker = ChunkerInit

NextPlayback ==
  \/ \E r \in 1..Len(ttsRuns) : TtsGetDocument(r)
  \/ \E r \in 1..Len(ttsRuns) : TtsListChunks(r)
  \/ \E r \in 1..Len(ttsRuns) : TtsMarkProcessing(r)
  \/ \E r \in 1..Len(ttsRuns) : TtsInitPlayback(r)
  \/ \E r \in 1..Len(ttsRuns) : TtsCall(r)
  \/ \E r \in 1..Len(ttsRuns) : TtsResponseOk(r)
  \/ \E r \in 1..Len(ttsRuns) : TtsResponseFail(r)
  \/ \E r \in 1..Len(ttsRuns) : TtsSave(r)
  \/ \E r \in 1..Len(ttsRuns) : TtsFinish(r)
  \/ PlayerRender
  \/ AutoPlayTimeout
  \/ handleEnded
  \/ togglePlayPause
  \/ skipBack
  \/ skipForward
  \/ handleChunkClick
  \/ ApiUpdatePlaybackState
  \/ ApiInitPlaybackState

SpecPlayback == InitPlayback /\ [][NextPlayback]_vars

(***************************************************************************)
(* SpecChunk: the two chunkers applied to one text.  The text is every     *)
(* string of at most MaxShort characters over Alphabet, every text of at   *)
(* most MaxLong sentences with lengths around MIN_SIZE, TARGET_SIZE and    *)
(* MAX_SIZE, a passage with a sentence ending every 80 characters, or a    *)
(* text with two sentence endings in the last SEARCH_WINDOW characters of  *)
(* its first window.                                                       *)
(***************************************************************************)
Alphabet == {"a", ".", " "}

ShortTexts == UNION {[1..n -> Alphabet] : n \in 0..MaxShort}

\* a sentence of len characters
Sentence(len) == [i \in 1..len |-> IF i = len THEN "." ELSE "a"]

SentenceLengths == {74, 75, 150, 250, 500, 650}

LongTexts ==
  {Join([k \in 1..Len(lens) |-> Sentence(lens[k])], <<" ">>) :
     lens \in UNION {[1..n -> SentenceLengths] : n \in 1..MaxLong}}

\* n characters with a ". " at the end of every stretch of `every` characters
Periodic(n, every) ==
  [i \in 1..n |-> IF i % every = every - 1 THEN "."
                  ELSE IF i % every = 0 THEN " " ELSE "a"]

\* a text of CHUNK_SIZE + SEARCH_WINDOW characters with the sentence ending e1
\* in the middle of the last SEARCH_WINDOW characters of the first window and
\* the sentence ending e2 gap characters after it
TwoEndings(e1, e2, gap) ==
  LET at == CHUNK_SIZE - (SEARCH_WINDOW \div 2)
  IN  [i \in 1..(CHUNK_SIZE + SEARCH_WINDOW) |->
         IF i = at + 1 THEN e1[1]
         ELSE IF i = at + 2 THEN e1[2]
         ELSE IF i = at + 3 + gap THEN e2[1]
         ELSE IF i = at + 4 + gap THEN e2[2]
         ELSE "a"]

WindowTexts ==
  {TwoEndings(sentenceEndings[e1], sentenceEndings[e2], gap) :
     e1 \in 1..Len(sentenceEndings), e2 \in 1..Len(sentenceEndings), gap \in {0, 1, 20}}

ChunkInputs == ShortTexts \cup LongTexts \cup {Periodic(2500, 80)} \cup WindowTexts

InitChunk ==
  /\ documents = <<>>
  /\ audioChunks = <<>>
  /\ playbackState = <<>>
  /\ ragIndex = {}
  /\ ocrRuns = <<>>
  /\ embRuns = <<>>
  /\ ttsRuns = <<>>
  /\ player = PlayerInit
  /\ chatMessages = <<>>
  /\ chatRuns = <<>>
  /\ \E text \in ChunkInputs : chunker = [ChunkerInit EXCEPT !.text = text]

\* processDocumentEmbeddings: const chunks = chunkText(document.extractedText)
ApplyChunkText ==
  /\ "chunkText" \notin chunker.applied
  /\ chunker' = [chunker EXCEPT !.applied = @ \cup {"chunkText"},
                                !.chunkText = chunkText(chunker.text),
                                !.windows = chunkWindows(chunker.text)]
  /\ UNCHANGED <<documents, audioChunks, playbackState, ragIndex, ocrRuns, embRuns,
                 ttsRuns, player, chatMessages, chatRuns>>

\* processDocumentTTS: const chunks = chunkTextForTTS(cleanedText)
ApplyChunkTextForTTS ==
  /\ "chunkTextForTTS" \notin chunker.applied
  /\ chunker' = [chunker EXCEPT !.applied = @ \cup {"chunkTextForTTS"},
                                !.chunkTextForTTS = chunkTextForTTS(chunker.text)]
  /\ UNCHANGED <<documents, audioChunks, playbackState, ragIndex, ocrRuns, embRuns,
                 ttsRuns, player, chatMessages, chatRuns>>

NextChunk == ApplyChunkText \/ ApplyChunkTextForTTS

SpecChunk == InitChunk /\ [][NextChunk]_vars

(***************************************************************************)
(* Chat (convex/chatQueries.ts, sendMessage).  The content of a user       *)
(* message is the number of the question, the content of an assistant      *)
(* message the number of the question it answers.  createdAt is the        *)
(* position in the table.                                                  *)
(***************************************************************************)
\* listMessagesInternal: .order("asc").take(limit)
listMessagesInternal(rows, id, limit) ==
  LET all == SelectSeq(rows, LAMBDA row : row.documentId = id)
  IN  SubSeq(all, 1, IF Len(all) > limit THEN limit ELSE Len(all))

\* saveMessage: db.insert
saveMessage(rows, id, role, content) ==
  Append(rows, [documentId |-> id, role |-> role, content |-> content])

\* the document whose chat panel is open
ChatDoc == 1

\* a client invokes sendMessage with a new question
sendMessage ==
  /\ Len(chatRuns) < MaxSends
  /\ chatRuns' = Append(chatRuns,
       [documentId |-> ChatDoc, message |-> MaxExchanges + Len(chatRuns) + 1,
        pc |-> "start", previousMessages |-> <<>>, messages |-> <<>>])
  /\ UNCHANGED <<documents, audioChunks, playbackState, ragIndex, ocrRuns, embRuns, ttsRuns,
                 player, chunker, chatMessages>>

\* the tables and runs a step of sendMessage leaves alone, apart from chatMessages
ChatFrame ==
  UNCHANGED <<documents, audioChunks, playbackState, ragIndex, ocrRuns, embRuns, ttsRuns,
              player, chunker>>

\* SendListMessages that stores the user message before anything else
SendListMessagesSavingFirst(r) ==
  LET run == chatRuns[r]
  IN  /\ run.pc = "start"
      /\ chatRuns' = [chatRuns EXCEPT
           ![r].pc = "search",
           ![r].previousMessages =
              listMessagesInternal(chatMessages, run.documentId, HistoryLimit)]
      /\ chatMessages' = saveMessage(chatMessages, run.documentId, "user", run.message)
      /\ ChatFrame

\* runQuery(listMessagesInternal, {limit: 20})
SendListMessages(r) ==
  LET run == chatRuns[r]
  IN  /\ run.pc = "start"
      /\ chatRuns' = [chatRuns EXCEPT
           ![r].pc = "search",
           ![r].previousMessages =
              listMessagesInternal(chatMessages, run.documentId, HistoryLimit)]
      /\ UNCHANGED chatMessages
      /\ ChatFrame

\* runAction(searchDocument) answers; userPrompt and the message array are built
\* and callLLM sends them
SendSearch(r) ==
  LET run == chatRuns[r]
  IN  /\ run.pc = "search"
      /\ chatRuns' = [chatRuns EXCEPT
           ![r].pc = "llm",
           ![r].messages =
              <<[role |-> "system", content |-> 0]>>
              \o [k \in 1..Len(run.previousMessages) |->
                    [role |-> run.previousMessages[k].role,
                     content |-> run.previousMessages[k].content]]
              \o <<[role |-> "user", content |-> run.message,
                     context |-> searchDocument(ragIndex, run.documentId)]>>]
      /\ UNCHANGED chatMessages
      /\ ChatFrame

\* runAction(searchDocument) rejects: sendMessage rejects
SendSearchThrows(r) ==
  /\ chatRuns[r].pc = "search"
  /\ chatRuns' = [chatRuns EXCEPT ![r].pc = "failed"]
  /\ UNCHANGED chatMessages
  /\ ChatFrame

\* callLLM returns data.choices[0].message.content
SendLLMAnswers(r) ==
  /\ chatRuns[r].pc = "llm"
  /\ chatRuns' = [chatRuns EXCEPT ![r].pc = "saveUser"]
  /\ UNCHANGED chatMessages
  /\ ChatFrame

\* callLLM throws (not ok, or no content): sendMessage rejects
SendLLMThrows(r) ==
  /\ chatRuns[r].pc = "llm"
  /\ chatRuns' = [chatRuns EXCEPT ![r].pc = "failed"]
  /\ UNCHANGED chatMessages
  /\ ChatFrame

\* runMutation(saveMessage, {role: "user", content: args.message})
SendSaveUser(r) ==
  LET run == chatRuns[r]
  IN  /\ run.pc = "saveUser"
      /\ chatMessages' = saveMessage(chatMessages, run.documentId, "user", run.message)
      /\ chatRuns' = [chatRuns EXCEPT ![r].pc = "saveAssistant"]
      /\ ChatFrame

\* runMutation(saveMessage, {role: "assistant", content: response}); return
SendSaveAssistant(r) ==
  LET run == chatRuns[r]
  IN  /\ run.pc = "saveAssistant"
      /\ chatMessages' = saveMessage(chatMessages, run.documentId, "assistant", run.message)
      /\ chatRuns' = [chatRuns EXCEPT ![r].pc = "done"]
      /\ ChatFrame

(***************************************************************************)
(* SpecChat: a document that is extracted and indexed and whose chat       *)
(* history holds 0..MaxExchanges finished exchanges; clients invoke        *)
(* sendMessage MaxSends times, the calls interleave.                       *)
(***************************************************************************)
\* the history n sendMessage calls, one after the other, have stored
History(n) ==
  [k \in 1..(2 * n) |->
     [documentId |-> ChatDoc,
      role |-> IF k % 2 = 1 THEN "user" ELSE "assistant",
      content |-> (k + 1) \div 2]]

InitChat ==
  /\ Ingested(BurstText)
  /\ audioChunks = <<>>
  /\ playbackState = <<>>
  /\ ttsRuns = <<>>
  /\ player = PlayerInit
  /\ chunker = ChunkerInit
  /\ \E n \in 0..MaxExchanges : chatMessages = History(n)
  /\ chatRuns = <<>>

NextChat ==
  \/ sendMessage
  \/ \E r \in 1..Len(chatRuns) : SendListMessages(r)
  \/ \E r \in 1..Len(chatRuns) : SendSearch(r)
  \/ \E r \in 1..Len(chatRuns) : SendSearchThrows(r)
  \/ \E r \in 1..Len(chatRuns) : SendLLMAnswers(r)
  \/ \E r \in 1..Len(chatRuns) : SendLLMThrows(r)
  \/ \E r \in 1..Len(chatRuns) : SendSaveUser(r)
  \/ \E r \in 1..Len(chatRuns) : SendSaveAssistant(r)

SpecChat == InitChat /\ [][NextChat]_vars

(***************************************************************************)
(* Properties.                                                             *)
(***************************************************************************)
DocIds == 1..Len(documents)

TtsRunsOf(id) == {r \in 1..Len(ttsRuns) : ttsRuns[r].documentId = id}

\* the number of synthesis requests a speech run has sent
RECURSIVE SumSeq(_)
SumSeq(q) == IF q = <<>> THEN 0 ELSE Head(q) + SumSeq(Tail(q))

Calls(run) == SumSeq(run.attempts)

\* the run is past the guard and has written ttsStatus = "processing"
MarkedProcessing(run) ==
  \/ run.pc \in {"initPlayback", "call", "fetch", "save", "finish"}
  \/ run.result \in {"finished", "threw"}

\* the run has written ttsStatus
WroteStatus(run) == MarkedProcessing(run) \/ run.result = "shortCircuit"

\* the run is in flight: it has marked the document and has not ended
InFlight(run) == run.pc \in {"initPlayback", "call", "fetch", "save", "finish"}

\* C1: for every document at most one speech run that has passed the guard
\* and sent a synthesis request is in flight at a time.
C1_OneSpeechRunInFlight ==
  \A id \in DocIds :
    Cardinality({r \in TtsRunsOf(id) : InFlight(ttsRuns[r]) /\ Calls(ttsRuns[r]) > 0}) <= 1

\* C2: embeddingStatus or ttsStatus changes to "processing" only in a state
\* where the extraction status of the document is "ready".
C2_ProcessingOnlyWhenExtracted ==
  [][\A id \in DocIds :
       (\/ /\ documents'[id].embeddingStatus = "processing"
           /\ documents[id].embeddingStatus # "processing"
        \/ /\ documents'[id].ttsStatus = "processing"
           /\ documents[id].ttsStatus # "processing")
       => documents[id].status = "ready"]_vars

\* C3: a speech trigger that reads ttsStatus "processing" or "ready" sends no
\* synthesis request, writes no audio chunk and does not write ttsStatus.
C3_GuardedSpeechTriggerIsNoOp ==
  \A r \in 1..Len(ttsRuns) :
    ttsRuns[r].seenStatus \in {"processing", "ready"}
    => /\ Calls(ttsRuns[r]) = 0
       /\ ttsRuns[r].successCount = 0
       /\ ~WroteStatus(ttsRuns[r])

\* C4: triggerOCR on a document whose status is "processing" or "ready"
\* leaves the status and schedules no extraction run.
C4_TriggerOcrIgnored ==
  [][\A id \in DocIds :
       (documents[id].status \in {"processing", "ready"} /\ triggerOCR(id))
       => (documents'[id].status = documents[id].status /\ ocrRuns' = ocrRuns)]_vars

\* C5: an indexing run that reads embeddingStatus "ready" does not call the
\* indexer, and no two indexing runs of a document are between their read of
\* the document and their last write at the same time.
C5_IndexingRerunIsNoOp ==
  /\ \A r \in 1..Len(embRuns) : embRuns[r].seenStatus = "ready" => ~embRuns[r].added
  /\ \A id \in DocIds :
       Cardinality({r \in 1..Len(embRuns) :
                      /\ embRuns[r].documentId = id
                      /\ embRuns[r].pc \in {"ragAdd", "markReady", "catch"}}) <= 1

\* C6: once an extraction run has succeeded, the text is stored and both the
\* indexing stage and the speech stage of the document have been set to
\* "processing" and started.
C6_SuccessStartsBothStages ==
  \A r \in 1..Len(ocrRuns) :
    (ocrRuns[r].pc = "done" /\ ocrRuns[r].outcome = "ready")
    => LET id == ocrRuns[r].documentId
       IN  /\ documents[id].extractedText # 0
           /\ documents[id].embeddingStatus # "none"
           /\ \E e \in 1..Len(embRuns) : embRuns[e].documentId = id
           /\ documents[id].ttsStatus # "none"
           /\ TtsRunsOf(id) # {}

\* C7: an extraction run that has set the status to "error" has stored an
\* error message, has not set embeddingStatus to "processing" and has
\* scheduled no indexing run.
C7_FailureStartsNothing ==
  \A r \in 1..Len(ocrRuns) :
    ocrRuns[r].outcome = "error"
    => /\ documents[ocrRuns[r].documentId].error # "none"
       /\ ~ocrRuns[r].setEmbedding
       /\ ~ocrRuns[r].scheduled

\* the only speech run of its document that got past the guard
SoleRun(r) ==
  \A q \in TtsRunsOf(ttsRuns[r].documentId) \ {r} :
    ttsRuns[q].pc \in {"start", "listChunks"} \/ ttsRuns[q].result \in {"noText", "skipped"}

\* C8: a speech run that submitted n >= 1 chunk jobs of which k failed has
\* ended with ttsStatus "ready" and n - k audio chunks if k < n, and with
\* ttsStatus "error" if k = n.
C8_PartialFailure ==
  \A r \in 1..Len(ttsRuns) :
    LET run == ttsRuns[r]
        k == Cardinality(run.failed)
    IN  (run.pc = "done" /\ MarkedProcessing(run) /\ run.n >= 1 /\ SoleRun(r))
        => IF k < run.n
           THEN /\ documents[run.documentId].ttsStatus = "ready"
                /\ Len(listAudioChunksInternal(run.documentId)) = run.n - k
           ELSE documents[run.documentId].ttsStatus = "error"

\* C9: ttsStatus is "processing" only while a speech run of the document is
\* in flight.
C9_ProcessingHasRunInFlight ==
  \A id \in DocIds :
    documents[id].ttsStatus = "processing"
    => \E r \in TtsRunsOf(id) : ttsRuns[r].pc = "markProcessing" \/ InFlight(ttsRuns[r])

\* C10: a chunk job is given up only after maxAttempts synthesis requests.
C10_GivenUpAfterMaxAttempts ==
  \A r \in 1..Len(ttsRuns) :
    \A i \in ttsRuns[r].failed : ttsRuns[r].attempts[i + 1] = maxAttempts

\* the synthesis requests in flight
CallsInFlight == {r \in 1..Len(ttsRuns) : ttsRuns[r].pc = "fetch"}

\* C11: the number of synthesis requests in flight at the same time, over all
\* documents and all speech runs, is at most maxParallelism.
C11_CallsInFlightCapped == Cardinality(CallsInFlight) <= maxParallelism

\* C12: in a speech run that has ended, a failed chunk job has not kept the
\* job of any other chunk of the run from being attempted.
C12_FailedJobDoesNotBlockSiblings ==
  \A r \in 1..Len(ttsRuns) :
    (ttsRuns[r].pc = "done" /\ ttsRuns[r].failed # {})
    => \A j \in 1..ttsRuns[r].n : ttsRuns[r].attempts[j] >= 1

\* C13: ttsStatus "ready" implies that at least one audio chunk of the
\* document is persisted.
C13_ReadyHasAudioChunk ==
  \A id \in DocIds :
    documents[id].ttsStatus = "ready" => Len(listAudioChunksInternal(id)) >= 1

\* the run passed the status guard and found audio chunks of its document
ShortCircuited(run) ==
  \/ run.result = "shortCircuit"
  \/ run.result = "skipped" /\ ~TtsGuard(run.kind, run.seenStatus)

\* C14: the step in which a speech run that passed the guard and found audio
\* chunks ends leaves ttsStatus "ready" and writes no audio chunk, and the run
\* has sent no synthesis request.
C14_ShortCircuitSetsReady ==
  [][\A r \in 1..Len(ttsRuns) :
       (Len(ttsRuns') = Len(ttsRuns)
        /\ ~ShortCircuited(ttsRuns[r]) /\ ShortCircuited(ttsRuns'[r]))
       => /\ documents'[ttsRuns[r].documentId].ttsStatus = "ready"
          /\ audioChunks' = audioChunks
          /\ Calls(ttsRuns'[r]) = 0]_vars

\* the chunkIndex values of the persisted audio chunks of a document
ChunkIndices(id) ==
  {listAudioChunksInternal(id)[k].chunkIndex : k \in 1..Len(listAudioChunksInternal(id))}

\* C15: when ttsStatus is "ready" the chunkIndex values of the persisted audio
\* chunks of the document are 0 .. n-1, n the number of persisted chunks.
C15_ContiguousChunkIndices ==
  \A id \in DocIds :
    documents[id].ttsStatus = "ready"
    => ChunkIndices(id) = 0..(Len(listAudioChunksInternal(id)) - 1)

\* no two rows of the table have the same (documentId, chunkIndex)
UniqueChunks(rows) ==
  \A j, k \in 1..Len(rows) :
    (rows[j].documentId = rows[k].documentId /\ rows[j].chunkIndex = rows[k].chunkIndex)
    => j = k

\* C16: after every step there is at most one persisted audio chunk per
\* (document, chunkIndex), and every audio chunk written before the step is
\* still there, unchanged.
C16_OneImmutableChunkPerIndex ==
  [][/\ UniqueChunks(audioChunks')
     /\ Len(audioChunks') >= Len(audioChunks)
     /\ SubSeq(audioChunks', 1, Len(audioChunks)) = audioChunks]_vars

\* C17: an indexing run goes to its catch block exactly if the document has
\* no text or the chunker returns zero chunks, or when the indexer throws; a
\* run that ends from the catch block leaves embeddingStatus "error" with its
\* message and does not write chunkCount, every other run ends with
\* embeddingStatus "ready" and its chunk count, at least 1, in chunkCount;
\* and after every step embeddingStatus "ready" implies chunkCount >= 1.
C17_IndexingRunOutcome ==
  [][/\ \A r \in 1..Len(embRuns) :
          LET run == embRuns[r]
              id == run.documentId
              text == documents[id].extractedText
          IN  /\ (run.pc = "scheduled" /\ embRuns'[r].pc # "scheduled")
                 => ((text = 0 \/ Len(chunkText(TextOf(text))) = 0)
                     <=> embRuns'[r].pc = "catch")
              /\ (run.pc = "ragAdd" /\ embRuns'[r].pc # "ragAdd")
                 => IF embRuns'[r].pc = "catch"
                    THEN ragIndex' = ragIndex
                    ELSE \E e \in ragIndex' : e.namespace = id /\ e.text = run.text
              /\ (run.pc # "done" /\ embRuns'[r].pc = "done")
                 => IF run.pc = "catch"
                    THEN /\ documents'[id].embeddingStatus = "error"
                         /\ run.message # "none"
                         /\ documents'[id].embeddingError = run.message
                         /\ documents'[id].chunkCount = documents[id].chunkCount
                    ELSE /\ documents'[id].embeddingStatus = "ready"
                         /\ run.added
                         /\ run.chunkCount >= 1
                         /\ documents'[id].chunkCount = run.chunkCount
     /\ \A id \in 1..Len(documents') :
          documents'[id].embeddingStatus = "ready" => documents'[id].chunkCount >= 1]_vars

\* C17 witness: one indexing run has ended in "ready" and recorded its chunk
\* count, another has ended from its catch block and the document carries its
\* message.
C17_Witness ==
  \E r, q \in 1..Len(embRuns) :
    /\ embRuns[r].pc = "done" /\ embRuns[r].message = "none" /\ embRuns[r].chunkCount >= 1
    /\ embRuns[q].pc = "done" /\ embRuns[q].message # "none"
    /\ documents[embRuns[q].documentId].embeddingStatus = "error"
    /\ documents[embRuns[q].documentId].embeddingError = embRuns[q].message

\* the fields of document id that the extraction stage owns, the indexing
\* stage owns and the speech stage owns
OcrFields(docs, id) == <<docs[id].status, docs[id].error, docs[id].extractedText>>

EmbFields(docs, id) == <<docs[id].embeddingStatus, docs[id].embeddingError, docs[id].chunkCount>>

TtsFields(docs, id) == <<docs[id].ttsStatus, docs[id].ttsError>>

\* C18: a step of an extraction run leaves the indexing and speech fields of
\* every document, a step of an indexing run the extraction and speech
\* fields, a step of a speech run the extraction and indexing fields.
C18_StageWritesOwnFields ==
  [][\A id \in DocIds :
       /\ (Len(ocrRuns') = Len(ocrRuns) /\ ocrRuns' # ocrRuns)
          => /\ EmbFields(documents', id) = EmbFields(documents, id)
             /\ TtsFields(documents', id) = TtsFields(documents, id)
       /\ (Len(embRuns') = Len(embRuns) /\ embRuns' # embRuns)
          => /\ OcrFields(documents', id) = OcrFields(documents, id)
             /\ TtsFields(documents', id) = TtsFields(documents, id)
       /\ (Len(ttsRuns') = Len(ttsRuns) /\ ttsRuns' # ttsRuns)
          => /\ OcrFields(documents', id) = OcrFields(documents, id)
             /\ EmbFields(documents', id) = EmbFields(documents, id)]_vars

\* C19: a step that moves a stage of a document to "processing" leaves the
\* error field of that stage empty.
C19_ProcessingClearsError ==
  [][\A id \in DocIds :
       /\ (documents'[id].status = "processing" /\ documents[id].status # "processing")
          => documents'[id].error = "none"
       /\ (documents'[id].embeddingStatus = "processing"
           /\ documents[id].embeddingStatus # "processing")
          => documents'[id].embeddingError = "none"
       /\ (documents'[id].ttsStatus = "processing" /\ documents[id].ttsStatus # "processing")
          => documents'[id].ttsError = "none"]_vars

\* C20: a step of an indexing run of document B adds entries only under the
\* namespace of B and with the text the run read from B, and leaves the
\* entries that searchDocument searches for every other document A.
C20_IndexIsolatedPerDocument ==
  [][\A r \in 1..Len(embRuns) :
       embRuns'[r] # embRuns[r]
       => LET B == embRuns[r].documentId
          IN  /\ \A e \in ragIndex' \ ragIndex :
                   e.namespace = B /\ e.text = embRuns[r].text
              /\ \A A \in DocIds \ {B} :
                   searchDocument(ragIndex', A) = searchDocument(ragIndex, A)]_vars

\* C20 witness: two documents with different texts are both indexed and the
\* search on each covers its own entry only.
C20_Witness ==
  /\ Len(documents) = 2
  /\ documents[1].extractedText # documents[2].extractedText
  /\ \A id \in DocIds :
       /\ documents[id].embeddingStatus = "ready"
       /\ searchDocument(ragIndex, id)
            = {[namespace |-> id, key |-> id, text |-> documents[id].extractedText]}

\* the stored playback state of the document the player shows, <<>> if none
StoredPlayback == getPlaybackState(playbackState, PlayerDoc)

\* C21: when the chunk the player plays ends and its currentChunkIndex + 1 is
\* below totalChunks, the stored currentChunkIndex becomes that index plus one,
\* isPlaying is not touched and the player goes on playing; otherwise the stored
\* currentChunkIndex is unchanged and isPlaying becomes false.  A step of
\* auto-advance or skipForward that changes the stored currentChunkIndex leaves
\* it at most the number of the document's audio chunks minus one.
C21_AutoAdvance ==
  [][/\ handleEnded =>
          /\ StoredPlayback # <<>>
          /\ IF currentChunkIndex(player) + 1 < totalChunks(player)
             THEN /\ StoredPlayback'[1].currentChunkIndex = currentChunkIndex(player) + 1
                  /\ StoredPlayback'[1].isPlaying = StoredPlayback[1].isPlaying
                  /\ player'.shouldContinuePlaying
             ELSE /\ StoredPlayback'[1].currentChunkIndex = StoredPlayback[1].currentChunkIndex
                  /\ ~StoredPlayback'[1].isPlaying
                  /\ ~player'.shouldContinuePlaying
     /\ /\ handleEnded \/ skipForward
        /\ StoredPlayback # <<>>
        /\ StoredPlayback'[1].currentChunkIndex # StoredPlayback[1].currentChunkIndex
        => StoredPlayback'[1].currentChunkIndex
            <= Len(listAudioChunks(audioChunks', PlayerDoc)) - 1]_vars

\* C21: the first chunk has ended, the stored index is 1 and the player is about
\* to load the second chunk
C21_Witness ==
  /\ player.hasTriggeredAutoPlay
  /\ player.shouldContinuePlaying
  /\ ~player.localIsPlaying
  /\ currentChunkIndex(player) = 0
  /\ totalChunks(player) >= 2
  /\ StoredPlayback # <<>>
  /\ StoredPlayback[1].currentChunkIndex = 1
  /\ StoredPlayback[1].isPlaying

\* C22: a step that stores an audio chunk (saveAudioChunk), whichever chunks are
\* stored already, leaves the playbackState table as it was: currentChunkIndex and
\* isPlaying of the document are the same before and after the write.
C22_ChunkArrivalKeepsPlayback ==
  [][audioChunks' # audioChunks => playbackState' = playbackState]_vars

\* C22: the last chunk of the passage has just been stored while the stored
\* playback state says playing
C22_Witness ==
  /\ \E r \in 1..Len(ttsRuns) :
       /\ ttsRuns[r].pc = "finish"
       /\ ttsRuns[r].n >= 2
       /\ \E k \in 1..Len(audioChunks) : audioChunks[k].chunkIndex = ttsRuns[r].n - 1
  /\ StoredPlayback # <<>>
  /\ StoredPlayback[1].isPlaying

\* C23: whatever updatePlaybackState, initPlaybackState and
\* initPlaybackStateInternal calls have run and however they interleaved, no
\* document has more than one playbackState row, and a call of initPlaybackState
\* or initPlaybackStateInternal for a document that has a row leaves the row's
\* currentChunkIndex and isPlaying as they were.
C23_OnePlaybackRowPerDocument ==
  [][/\ \A id \in DocIds : Len(getPlaybackState(playbackState', id)) <= 1
     /\ /\ ApiInitPlaybackState \/ \E r \in 1..Len(ttsRuns) : TtsInitPlayback(r)
        /\ StoredPlayback # <<>>
        => playbackState' = playbackState]_vars

\* C23: the run has just called initPlaybackStateInternal for a document whose
\* row a client's updatePlaybackState had created with currentChunkIndex 1
C23_Witness ==
  /\ \E r \in 1..Len(ttsRuns) :
       /\ ttsRuns[r].pc = "call"
       /\ ttsRuns[r].i = 0
       /\ \A k \in 1..Len(ttsRuns[r].attempts) : ttsRuns[r].attempts[k] = 0
  /\ Len(StoredPlayback) = 1
  /\ StoredPlayback[1].currentChunkIndex = 1

\* C24: every playbackState row has currentChunkIndex >= 0, whatever calls of
\* updatePlaybackState, skipBack, skipForward, chunk clicks and auto-advance
\* steps have written it.
C24_CurrentChunkIndexNotNegative ==
  \A k \in 1..Len(playbackState) : playbackState[k].currentChunkIndex >= 0

\* the text has a character that is not whitespace
HasText(text) == \E k \in 1..Len(text) : ~IsSpace(text[k])

\* the characters of the text that are not whitespace, in order
NonSpace(text) == SelectSeq(text, LAMBDA c : ~IsSpace(c))

\* the sentences of the text, trimmed, the empty ones left out
TrimmedSentences(text) ==
  SelectSeq([k \in 1..Len(SentencesFrom(text, 0)) |-> Trim(SentencesFrom(text, 0)[k].text)],
            LAMBDA t : t # <<>>)

\* C25: for a text with at least one non-whitespace character chunkText returns
\* at least one chunk and chunkTextForTTS returns at least one chunk.
C25_ChunksForNonBlankText ==
  HasText(chunker.text) =>
    /\ "chunkText" \in chunker.applied => Len(chunker.chunkText) >= 1
    /\ "chunkTextForTTS" \in chunker.applied => Len(chunker.chunkTextForTTS) >= 1

\* C25: both chunkers have returned chunks for a text in which a terminator is
\* directly followed by a letter
C25_Witness ==
  /\ chunker.applied = {"chunkText", "chunkTextForTTS"}
  /\ \E k \in 1..(Len(chunker.text) - 1) :
       chunker.text[k] \in Terminators /\ chunker.text[k + 1] = "a"
  /\ Len(chunker.chunkText) >= 1
  /\ Len(chunker.chunkTextForTTS) >= 1

\* C26: for a non-empty text the chunks of chunkTextForTTS partition the text:
\* the first starts at offset 0, each starts where the one before ends, the
\* last ends at the length of the text, and the non-whitespace characters of
\* the text are those of the chunk texts, in order and once each.
C26_SpeechChunksPartitionText ==
  "chunkTextForTTS" \in chunker.applied /\ chunker.text # <<>> =>
    LET chunks == chunker.chunkTextForTTS
    IN  /\ chunks # <<>> =>
             /\ chunks[1].startCharIndex = 0
             /\ \A k \in 2..Len(chunks) :
                  chunks[k].startCharIndex = chunks[k - 1].endCharIndex
             /\ chunks[Len(chunks)].endCharIndex = Len(chunker.text)
        /\ NonSpace(Join([k \in 1..Len(chunks) |-> chunks[k].text], <<>>))
             = NonSpace(chunker.text)

\* C27: every chunk of chunkTextForTTS has 1..MAX_SIZE characters, unless it is
\* one single sentence longer than MAX_SIZE or it is the last chunk.
C27_SpeechChunkLength ==
  "chunkTextForTTS" \in chunker.applied =>
    LET chunks == chunker.chunkTextForTTS
    IN  \A k \in 1..Len(chunks) :
          \/ Len(chunks[k].text) \in 1..MAX_SIZE
          \/ /\ Len(chunks[k].text) > MAX_SIZE
             /\ \E j \in 1..Len(TrimmedSentences(chunker.text)) :
                  TrimmedSentences(chunker.text)[j] = chunks[k].text
          \/ k = Len(chunks)

\* C28: for a text longer than CHUNK_SIZE every window of chunkText after the
\* first starts CHUNK_OVERLAP characters before the end of the window before it,
\* and the passage of 2500 characters with a sentence ending every 80 characters
\* is cut into 3 chunks.
C28_IndexChunksOverlap ==
  "chunkText" \in chunker.applied /\ Len(chunker.text) > CHUNK_SIZE =>
    /\ \A k \in 2..Len(chunker.windows) :
         chunker.windows[k].start = chunker.windows[k - 1].end - CHUNK_OVERLAP
    /\ chunker.text = Periodic(2500, 80) => Len(chunker.chunkText) = 3

\* the end offsets of the sentence endings that lie in the last SEARCH_WINDOW
\* characters of the window [start, start + CHUNK_SIZE)
EndingEnds(text, start) ==
  {k + 2 : k \in {j \in (start + CHUNK_SIZE - SEARCH_WINDOW)..(start + CHUNK_SIZE - 2) :
                    \E e \in 1..Len(sentenceEndings) :
                      StartsWithAt(text, j, sentenceEndings[e])}}

\* C29: a window of chunkText that does not reach the end of the text and has a
\* sentence ending in its last SEARCH_WINDOW characters ends right after the
\* right-most of these sentence endings.
C29_CutAfterRightMostEnding ==
  "chunkText" \in chunker.applied =>
    \A k \in 1..Len(chunker.windows) :
      LET start == chunker.windows[k].start
          ends == EndingEnds(chunker.text, start)
      IN  start + CHUNK_SIZE < Len(chunker.text) /\ ends # {} =>
            \A e \in ends : e <= chunker.windows[k].end /\ chunker.windows[k].end \in ends

\* C30 as stated: for a text whose trimmed sentences joined by single spaces
\* have fewer than TARGET_SIZE characters chunkTextForTTS returns exactly one
\* chunk, from offset 0 to the length of the text.
C30_ShortTextIsOneChunk_AsStated ==
  /\ "chunkTextForTTS" \in chunker.applied
  /\ Len(Join(TrimmedSentences(chunker.text), <<" ">>)) < TARGET_SIZE
  => /\ Len(chunker.chunkTextForTTS) = 1
     /\ chunker.chunkTextForTTS[1].startCharIndex = 0
     /\ chunker.chunkTextForTTS[1].endCharIndex = Len(chunker.text)

\* C30 amended: for a text with at least one non-whitespace character whose
\* trimmed sentences joined by single spaces have fewer than TARGET_SIZE
\* characters chunkTextForTTS returns exactly one chunk, from offset 0 to the
\* length of the text.
C30_ShortTextIsOneChunk ==
  /\ "chunkTextForTTS" \in chunker.applied
  /\ HasText(chunker.text)
  /\ Len(Join(TrimmedSentences(chunker.text), <<" ">>)) < TARGET_SIZE
  => /\ Len(chunker.chunkTextForTTS) = 1
     /\ chunker.chunkTextForTTS[1].startCharIndex = 0
     /\ chunker.chunkTextForTTS[1].endCharIndex = Len(chunker.text)

\* C30: chunkTextForTTS has returned one chunk for a text of 2 sentences and
\* 150 characters
C30_Witness ==
  /\ "chunkTextForTTS" \in chunker.applied
  /\ Len(chunker.text) = 150
  /\ Len(TrimmedSentences(chunker.text)) = 2
  /\ Len(chunker.chunkTextForTTS) = 1

\* the stored chat messages of the document whose chat panel is open
StoredChat == SelectSeq(chatMessages, LAMBDA row : row.documentId = ChatDoc)

\* C31: the history sendMessage reads holds stored messages in creation order
\* and ends with the most recent stored message, also when more than
\* HistoryLimit messages are stored; the list it sends to the chat service is
\* the system prompt, this history and the new question.
C31_HistoryHoldsLatestExchange ==
  [][\A r \in 1..Len(chatRuns) :
       /\ chatRuns[r].pc = "start" /\ chatRuns'[r].pc = "search" /\ StoredChat # <<>> =>
            LET previousMessages == chatRuns'[r].previousMessages
            IN  /\ previousMessages # <<>>
                /\ previousMessages[Len(previousMessages)] = StoredChat[Len(StoredChat)]
                /\ \A k \in 1..(Len(previousMessages) - 1) :
                     previousMessages[k].content <= previousMessages[k + 1].content
       /\ chatRuns[r].pc = "search" /\ chatRuns'[r].pc = "llm" =>
            /\ Len(chatRuns'[r].messages) = Len(chatRuns[r].previousMessages) + 2
            /\ \A k \in 1..Len(chatRuns[r].previousMessages) :
                 /\ chatRuns'[r].messages[k + 1].role = chatRuns[r].previousMessages[k].role
                 /\ chatRuns'[r].messages[k + 1].content
                      = chatRuns[r].previousMessages[k].content]_vars

\* C36: in the stored history every user message is followed at once by the
\* assistant message that answers it (the last message may be a user message
\* whose call is about to store the answer), and every assistant message
\* follows the user message it answers.
C36_HistoryAlternates ==
  \A k \in 1..Len(StoredChat) :
    IF StoredChat[k].role = "user"
    THEN IF k < Len(StoredChat)
         THEN /\ StoredChat[k + 1].role = "assistant"
              /\ StoredChat[k + 1].content = StoredChat[k].content
         ELSE \E r \in 1..Len(chatRuns) :
                /\ chatRuns[r].pc = "saveAssistant"
                /\ chatRuns[r].message = StoredChat[k].content
    ELSE /\ k > 1
         /\ StoredChat[k - 1].role = "user"
         /\ StoredChat[k - 1].content = StoredChat[k].content

\* C37: a sendMessage call that failed in the index search or in the chat
\* service call has stored no message: the step that fails leaves chatMessages
\* as it was and no stored message carries the question of a failed call.
C37_FailedSendStoresNothing ==
  [][\A r \in 1..Len(chatRuns') :
       chatRuns'[r].pc = "failed" =>
         /\ r <= Len(chatRuns) /\ chatRuns[r].pc # "failed" => chatMessages' = chatMessages
         /\ \A k \in 1..Len(chatMessages') :
              chatMessages'[k].content # chatRuns'[r].message]_vars

\* C37: one call has failed while the other call has stored its exchange
C37_Witness ==
  /\ \E r \in 1..Len(chatRuns) : chatRuns[r].pc = "failed"
  /\ \E r \in 1..Len(chatRuns) :
       /\ chatRuns[r].pc = "done"
       /\ \E k \in 1..Len(chatMessages) : chatMessages[k].content = chatRuns[r].message

\* C32: when the playback state the player shows has currentChunkIndex i and the
\* chunk list it shows holds a chunk with chunkIndex i, the chunk the player
\* loads and reports to the page is that chunk, also when a chunk with a lower
\* index is missing from the list.
C32_PlayerLoadsChunkOfIndex ==
  \A k \in 1..totalChunks(player) :
    player.audioChunks[k].chunkIndex = currentChunkIndex(player) =>
      currentChunk(player) = <<player.audioChunks[k]>>

\* document id exists and its extraction status is one of statuses
StatusIn(id, statuses) ==
  IF id \in DocIds THEN documents[id].status \in statuses ELSE FALSE

\* C33: under fair scheduling a document whose extraction status is
\* 'processing' (triggerOCR has set it) gets the status 'ready' or 'error',
\* whatever the extraction service answers.
C33_ProcessingEnds ==
  \A id \in 1..(MaxDocs + 1) :
    StatusIn(id, {"processing"}) ~> StatusIn(id, {"ready", "error"})

\* C33: a run has ended with a failure and the document's status is 'error'
C33_Witness ==
  \E r \in 1..Len(ocrRuns) :
    /\ ocrRuns[r].pc = "done"
    /\ ocrRuns[r].outcome = "error"
    /\ documents[ocrRuns[r].documentId].status = "error"

\* C34: a document whose extraction status is 'ready' has a non-empty
\* extractedText.
C34_ReadyHasText ==
  \A id \in DocIds :
    documents[id].status = "ready" =>
      documents[id].extractedText # 0 /\ TextOf(documents[id].extractedText) # <<>>

\* C34: a run has stored a text and the document is 'ready'
C34_Witness ==
  \E id \in DocIds :
    /\ documents[id].status = "ready"
    /\ documents[id].extractedText # 0
    /\ \E r \in 1..Len(ocrRuns) : ocrRuns[r].documentId = id /\ ocrRuns[r].outcome = "ready"

\* C35: the loop of the indexing chunker terminates for every text: in every
\* iteration the end is greater than the start and the next start is greater
\* than the start, so there are at most as many iterations as the text has
\* characters.
C35_IndexChunkerTerminates ==
  "chunkText" \in chunker.applied =>
    /\ \A k \in 1..Len(chunker.windows) :
         /\ chunker.windows[k].end > chunker.windows[k].start
         /\ chunker.windows[k].next > chunker.windows[k].start
    /\ Len(chunker.windows) <= Len(chunker.text)

\* C35: chunkText has run on a text that takes several iterations
C35_Witness ==
  /\ "chunkText" \in chunker.applied
  /\ Len(chunker.windows) >= 2

====
